---- MODULE Spec2Model ----
(***************************************************************************)
(* Model of smart-data-connector: the retrying fetcher (lib/fetcher.js),   *)
(* the schema inference engine (backend/src/lib/schema.js) and the         *)
(* ToolJet generator (backend/src/lib/generator.js), the /api routes       *)
(* (backend/src/routes), the persistence controllers (saveApiTest,         *)
(* saveDatasource) and the TestForm component.  The sets of inputs the     *)
(* specifications draw from (Responses, Texts, FieldLists, ...) are        *)
(* enumerations of arguments, taken from the tests and the mock server.    *)
(***************************************************************************)
EXTENDS Integers, Sequences, FiniteSets, TLC

VARIABLES
    \* ---- fetchWithRetry: one logical call ----
    pc,            \* position of the async function
    maxRetries,    \* options.maxRetries
    initialDelay,  \* options.initialDelay
    attempt,       \* let attempt
    lastError,     \* let lastError
    result,        \* value the call resolved to
    requests,      \* history: number of axios() calls issued
    sleeps,        \* history: delays passed to sleep(), in order
    received,      \* history: statuses of the responses received, in order
    failures,      \* history: errors of the attempts that got no response
    afterResponse, \* history: requests/sleeps started after a response arrived
    \* ---- schema.js: one call of each exported function ----
    dataIn,        \* argument of findArrayPath / inferSchema
    pathOut,       \* value findArrayPath returned
    schemaOut,     \* value inferSchema returned
    samplesIn,     \* argument of mergeFieldTypes
    fieldsOut,     \* value mergeFieldTypes returned
    called,        \* names of the functions that have returned
    typeOut,       \* value inferType returned
    pagOut,        \* value detectPagination returned
    \* ---- generator.js: one call of each exported function ----
    genIn,         \* the schema argument of the generator functions
    maskOut,       \* value maskSensitiveHeaders(schema.headers) returned
    maskAgain,     \* value maskSensitiveHeaders returned for maskOut
    datasourceOut, \* value generateDatasourceJSON returned
    wrapperOut,    \* value generateImportWrapper returned
    \* ---- routes: one request handled by the server ----
    req,           \* the request and what the tested API does when fetched
    dbMode,        \* what the database does during the request
    store,         \* the stored documents
    res,           \* the response sent, NoRes before
    saveLog,       \* history: how each save call of the handler ended
    \* ---- saveApiTest: calls running at the same time ----
    savers,        \* per call: its position, testData and existingTest
    completed,     \* history: calls completed, by URL
    \* ---- TestForm component ----
    form,          \* the component's state (one field per useState)
    inflight,      \* fetch() calls that have not settled
    sent           \* history: the requests sent, in order

fetchVars == <<pc, maxRetries, initialDelay, attempt, lastError, result,
               requests, sleeps, received, failures, afterResponse>>

schemaVars == <<dataIn, pathOut, schemaOut, samplesIn, fieldsOut, called>>

probeVars == <<typeOut, pagOut>>

genVars == <<genIn, maskOut, maskAgain, datasourceOut, wrapperOut>>

routeVars == <<req, dbMode, res, saveLog>>

saveVars == <<savers, completed>>

formVars == <<form, inflight, sent>>

appVars == <<req, dbMode, store, res, saveLog, savers, completed, form, inflight, sent>>

vars == <<pc, maxRetries, initialDelay, attempt, lastError, result,
          requests, sleeps, received, failures, afterResponse,
          dataIn, pathOut, schemaOut, samplesIn, fieldsOut, called,
          typeOut, pagOut,
          genIn, maskOut, maskAgain, datasourceOut, wrapperOut,
          req, dbMode, store, res, saveLog, savers, completed, form, inflight, sent>>

----------------------------------------------------------------------------
\* Bounds of the model
MaxRetriesBound == 3
MaxLongLen == 6
MaxShortLen == 2
MaxProps == 2
MaxSamples == 3
MaxUnits == 25
MaxMetaKeys == 4
MaxHeaders == 2
MaxSent == 3
MaxSavers == 2

\* A field that a JavaScript object does not carry (undefined)
Absent == "<absent>"

\* Values of options.maxRetries tried (negative values included)
RetryChoices == -1 .. MaxRetriesBound

\* Values of options.initialDelay tried (the route uses 500, the default is 1000)
DelayChoices == {500, 1000}

\* HTTP responses the server may give: axios resolves with any of them
Responses ==
    { [status |-> 200, statusText |-> "OK"],
      [status |-> 204, statusText |-> "No Content"],
      [status |-> 401, statusText |-> "Unauthorized"],
      [status |-> 404, statusText |-> "Not Found"],
      [status |-> 500, statusText |-> "Internal Server Error"],
      [status |-> 503, statusText |-> "Service Unavailable"] }

\* Errors axios rejects with when no response was received
NetworkErrors ==
    { [message |-> "connect ECONNREFUSED 127.0.0.1:9", code |-> "ECONNREFUSED"],
      [message |-> "getaddrinfo ENOTFOUND nohost", code |-> "ENOTFOUND"],
      [message |-> "timeout of 10000ms exceeded", code |-> "ECONNABORTED"],
      [message |-> "Network Error", code |-> Absent] }

NoError == [message |-> Absent, code |-> Absent]
NoResult == [success |-> FALSE, status |-> -1, statusText |-> Absent,
             error |-> Absent, errorType |-> Absent]

\* Math.pow(2, n) for the non-negative integers the loop produces
RECURSIVE Pow2(_)
Pow2(n) == IF n <= 0 THEN 1 ELSE 2 * Pow2(n - 1)

\* variant: the exponent is the attempt number itself
BackoffDelay_NoMinusOne(init, att) == init * Pow2(att)

\* const delay = initialDelay * Math.pow(2, attempt - 1)
BackoffDelay(init, att) == init * Pow2(att - 1)

\* variant: the loop stops one attempt early
LoopContinues_Strict(att, max) == att < max

\* while (attempt <= maxRetries)
LoopContinues(att, max) == att <= max

\* if (attempt <= maxRetries), after attempt++ in the catch block
ShouldSleep(att, max) == att <= max

\* variant: the code of the error is ignored
ErrorType_AlwaysLiteral(err) == "NETWORK_ERROR"

\* error.code || 'NETWORK_ERROR'
ErrorType(err) == IF err.code = Absent THEN "NETWORK_ERROR" ELSE err.code

\* the object returned from the try block
SuccessResult(resp) ==
    [success |-> TRUE, status |-> resp.status, statusText |-> resp.statusText,
     error |-> Absent, errorType |-> Absent]

\* the object returned from the catch block when error.response is set
ErrorResponseResult(resp, err) ==
    [success |-> FALSE, status |-> resp.status, statusText |-> resp.statusText,
     error |-> err.message, errorType |-> Absent]

\* the object returned after the loop
ExhaustedResult(err) ==
    [success |-> FALSE, status |-> 0, statusText |-> Absent,
     error |-> err.message, errorType |-> ErrorType(err)]

----------------------------------------------------------------------------
\* JSON values as JavaScript sees them after JSON.parse.  A value is a record
\* with a runtime tag; numbers are fixed-point (n counts 1/Scale units) so
\* that 1 and 1.5 are different kinds of number; arrays and objects keep
\* their properties as a sequence of entries in property iteration order
\* (an array's keys are its indices "0", "1", ...).
Scale == 10

JV(tag, n, s, kids) == [tag |-> tag, n |-> n, s |-> s, kids |-> kids]
JUndefined == JV("undefined", 0, "", <<>>)
JNull == JV("null", 0, "", <<>>)
JBool(b) == JV("boolean", IF b THEN 1 ELSE 0, "", <<>>)
JNum(units) == JV("number", units, "", <<>>)
JStr(s) == JV("string", 0, s, <<>>)
Entry(k, v) == [k |-> k, v |-> v]
JObj(entries) == JV("object", 0, "", entries)

RECURSIVE IndexEntries(_, _)
IndexEntries(vals, i) ==
    IF i > Len(vals) THEN <<>>
    ELSE <<Entry(ToString(i - 1), vals[i])>> \o IndexEntries(vals, i + 1)

JArr(vals) == JV("array", 0, "", IndexEntries(vals, 1))

\* Array.isArray(v)
IsArray(v) == v.tag = "array"

\* typeof v
TypeOf(v) == IF v.tag \in {"null", "array", "object"} THEN "object" ELSE v.tag

\* !v
Falsy(v) ==
    \/ v.tag \in {"null", "undefined"}
    \/ v.tag \in {"boolean", "number"} /\ v.n = 0
    \/ v.tag = "string" /\ v.s = ""

\* variant: every number counts as an integer
NumberIsInteger_Always(v) == v.tag = "number"

\* Number.isInteger(v)
NumberIsInteger(v) == v.tag = "number" /\ v.n % Scale = 0

\* k in v, for a plain object
HasKey(v, k) == \E i \in 1 .. Len(v.kids) : v.kids[i].k = k

\* v[k]
Get(v, k) ==
    IF HasKey(v, k)
      THEN v.kids[CHOOSE i \in 1 .. Len(v.kids) : v.kids[i].k = k].v
      ELSE JUndefined

\* arr.slice(0, n)
Slice(arr, n) == JV("array", 0, "", SubSeq(arr.kids, 1, n))

\* a string-or-null result
NullKey == [isNull |-> TRUE, str |-> ""]
StrKey(k) == [isNull |-> FALSE, str |-> k]

\* if (key): null and the empty string are falsy
Truthy(key) == ~key.isNull /\ key.str # ""

----------------------------------------------------------------------------
\* schema.js

\* variant: the first array property is taken even when it is empty
RECURSIVE FirstArrayKey_AnyArray(_, _)
FirstArrayKey_AnyArray(kids, i) ==
    IF i > Len(kids) THEN NullKey
    ELSE IF IsArray(kids[i].v) THEN StrKey(kids[i].k)
    ELSE FirstArrayKey_AnyArray(kids, i + 1)

\* for (const key in obj) if (Array.isArray(obj[key]) && obj[key].length > 0)
RECURSIVE FirstArrayKey(_, _)
FirstArrayKey(kids, i) ==
    IF i > Len(kids) THEN NullKey
    ELSE IF IsArray(kids[i].v) /\ Len(kids[i].v.kids) > 0 THEN StrKey(kids[i].k)
    ELSE FirstArrayKey(kids, i + 1)

findArrayPath(obj) ==
    IF IsArray(obj) THEN NullKey
    ELSE IF TypeOf(obj) # "object" \/ obj.tag = "null" THEN NullKey
    ELSE FirstArrayKey(obj.kids, 1)

inferType(value) ==
    IF value.tag = "null" THEN "null"
    ELSE IF IsArray(value) THEN "array"
    ELSE LET type == TypeOf(value) IN
         IF type = "number"
           THEN (IF NumberIsInteger(value) THEN "integer" ELSE "number")
           ELSE type

RECURSIVE FieldsOf(_, _)
FieldsOf(kids, i) ==
    IF i > Len(kids) THEN <<>>
    ELSE <<[name |-> kids[i].k, type |-> inferType(kids[i].v),
            sample |-> kids[i].v]>> \o FieldsOf(kids, i + 1)

inferFields(sampleObj) ==
    IF TypeOf(sampleObj) # "object" \/ sampleObj.tag = "null" THEN <<>>
    ELSE FieldsOf(sampleObj.kids, 1)

\* UTF-16 code units of the type tags, which is what Array.prototype.sort
\* compares when it is given no comparator
CodeUnits(t) ==
    CASE t = "array"     -> <<97, 114, 114, 97, 121>>
      [] t = "boolean"   -> <<98, 111, 111, 108, 101, 97, 110>>
      [] t = "integer"   -> <<105, 110, 116, 101, 103, 101, 114>>
      [] t = "null"      -> <<110, 117, 108, 108>>
      [] t = "number"    -> <<110, 117, 109, 98, 101, 114>>
      [] t = "object"    -> <<111, 98, 106, 101, 99, 116>>
      [] t = "string"    -> <<115, 116, 114, 105, 110, 103>>
      [] t = "undefined" -> <<117, 110, 100, 101, 102, 105, 110, 101, 100>>

RECURSIVE LexLess(_, _)
LexLess(a, b) ==
    IF b = <<>> THEN FALSE
    ELSE IF a = <<>> THEN TRUE
    ELSE IF Head(a) # Head(b) THEN Head(a) < Head(b)
    ELSE LexLess(Tail(a), Tail(b))

StrLess(a, b) == LexLess(CodeUnits(a), CodeUnits(b))

RECURSIVE InsertSorted(_, _)
InsertSorted(sorted, t) ==
    IF sorted = <<>> THEN <<t>>
    ELSE IF StrLess(t, Head(sorted)) THEN <<t>> \o sorted
    ELSE <<Head(sorted)>> \o InsertSorted(Tail(sorted), t)

RECURSIVE SortRec(_, _)
SortRec(types, acc) ==
    IF types = <<>> THEN acc
    ELSE SortRec(Tail(types), InsertSorted(acc, Head(types)))

\* variant: the tags are joined in the order they were first seen
SortTypes_Unsorted(types) == types

\* types.sort()
SortTypes(types) == SortRec(types, <<>>)

\* types.join('|')
RECURSIVE JoinBar(_)
JoinBar(types) ==
    IF types = <<>> THEN ""
    ELSE IF Len(types) = 1 THEN types[1]
    ELSE types[1] \o "|" \o JoinBar(Tail(types))

\* index of name in the insertion-ordered Map, 0 when absent
MapIndex(fieldMap, name) ==
    IF \E i \in 1 .. Len(fieldMap) : fieldMap[i].name = name
      THEN CHOOSE i \in 1 .. Len(fieldMap) : fieldMap[i].name = name
      ELSE 0

\* Set.prototype.add on an insertion-ordered Set
SetAdd(types, t) ==
    IF \E i \in 1 .. Len(types) : types[i] = t THEN types ELSE Append(types, t)

\* variant: fieldMap.has is not consulted, every occurrence adds an entry
AddField_NoHasCheck(fieldMap, field) ==
    Append(fieldMap, [name |-> field.name, types |-> <<field.type>>,
                      sample |-> field.sample])

\* the body of fields.forEach(field => ...)
AddField(fieldMap, field) ==
    IF MapIndex(fieldMap, field.name) = 0
      THEN Append(fieldMap, [name |-> field.name, types |-> <<field.type>>,
                             sample |-> field.sample])
      ELSE [fieldMap EXCEPT ![MapIndex(fieldMap, field.name)].types =
                                SetAdd(@, field.type)]

RECURSIVE AddFields(_, _, _)
AddFields(fieldMap, fields, j) ==
    IF j > Len(fields) THEN fieldMap
    ELSE AddFields(AddField(fieldMap, fields[j]), fields, j + 1)

\* samples.forEach(sample => ...)
RECURSIVE CollectFields(_, _, _)
CollectFields(elems, i, fieldMap) ==
    IF i > Len(elems) THEN fieldMap
    ELSE CollectFields(elems, i + 1,
                       AddFields(fieldMap, inferFields(elems[i].v), 1))

\* the callback of Array.from(fieldMap.values()).map(...)
FinalField(fieldInfo) ==
    [name |-> fieldInfo.name,
     type |-> IF Len(fieldInfo.types) = 1 THEN fieldInfo.types[1]
              ELSE JoinBar(SortTypes(fieldInfo.types)),
     sample |-> fieldInfo.sample]

RECURSIVE FinalFields(_, _)
FinalFields(fieldMap, i) ==
    IF i > Len(fieldMap) THEN <<>>
    ELSE <<FinalField(fieldMap[i])>> \o FinalFields(fieldMap, i + 1)

mergeFieldTypes(samples) ==
    IF Falsy(samples) \/ Len(samples.kids) = 0 THEN <<>>
    ELSE FinalFields(CollectFields(samples.kids, 1, <<>>), 1)

NullPagination ==
    [isNull |-> TRUE, type |-> Absent, pageParam |-> Absent,
     offsetParam |-> Absent, limitParam |-> Absent,
     metaPaths |-> [currentPage |-> Absent, perPage |-> Absent,
                    offset |-> Absent, limit |-> Absent, total |-> Absent]]

PagePagination(key, value) ==
    LET pageKey == IF HasKey(value, "page") THEN "page"
                   ELSE IF HasKey(value, "current_page") THEN "current_page"
                   ELSE "currentPage"
        perPageKey == IF HasKey(value, "per_page") THEN "per_page"
                      ELSE IF HasKey(value, "page_size") THEN "page_size"
                      ELSE IF HasKey(value, "perPage") THEN "perPage"
                      ELSE "pageSize"
        totalKey == IF HasKey(value, "total") THEN "total"
                    ELSE IF HasKey(value, "total_count") THEN "total_count"
                    ELSE "totalCount"
    IN [isNull |-> FALSE, type |-> "page", pageParam |-> "page",
        offsetParam |-> Absent, limitParam |-> "limit",
        metaPaths |-> [currentPage |-> key \o "." \o pageKey,
                       perPage |-> key \o "." \o perPageKey,
                       offset |-> Absent, limit |-> Absent,
                       total |-> key \o "." \o totalKey]]

OffsetPagination(key) ==
    [isNull |-> FALSE, type |-> "offset", pageParam |-> Absent,
     offsetParam |-> "offset", limitParam |-> "limit",
     metaPaths |-> [currentPage |-> Absent, perPage |-> Absent,
                    offset |-> key \o ".offset", limit |-> key \o ".limit",
                    total |-> key \o ".total"]]

\* variant: the offset-based signature is tested before the page-based one
RECURSIVE ScanPagination_OffsetFirst(_, _)
ScanPagination_OffsetFirst(kids, i) ==
    IF i > Len(kids) THEN NullPagination
    ELSE LET key == kids[i].k
             value == kids[i].v
             hasPage == \/ HasKey(value, "page") \/ HasKey(value, "current_page")
                        \/ HasKey(value, "currentPage")
             hasPerPage == \/ HasKey(value, "per_page") \/ HasKey(value, "page_size")
                           \/ HasKey(value, "perPage") \/ HasKey(value, "pageSize")
             hasTotal == \/ HasKey(value, "total") \/ HasKey(value, "total_count")
                         \/ HasKey(value, "totalCount")
             hasOffset == HasKey(value, "offset")
             hasLimit == HasKey(value, "limit")
         IN IF TypeOf(value) = "object" /\ value.tag # "null" /\ ~IsArray(value)
              THEN IF hasOffset /\ hasLimit
                     THEN OffsetPagination(key)
                   ELSE IF hasPage /\ (hasPerPage \/ hasTotal)
                     THEN PagePagination(key, value)
                   ELSE ScanPagination_OffsetFirst(kids, i + 1)
              ELSE ScanPagination_OffsetFirst(kids, i + 1)

\* variant: a later matching container replaces an earlier one
RECURSIVE ScanPagination_LastWins(_, _)
ScanPagination_LastWins(kids, i) ==
    IF i > Len(kids) THEN NullPagination
    ELSE LET key == kids[i].k
             value == kids[i].v
             hasPage == \/ HasKey(value, "page") \/ HasKey(value, "current_page")
                        \/ HasKey(value, "currentPage")
             hasPerPage == \/ HasKey(value, "per_page") \/ HasKey(value, "page_size")
                           \/ HasKey(value, "perPage") \/ HasKey(value, "pageSize")
             hasTotal == \/ HasKey(value, "total") \/ HasKey(value, "total_count")
                         \/ HasKey(value, "totalCount")
             hasOffset == HasKey(value, "offset")
             hasLimit == HasKey(value, "limit")
             later == ScanPagination_LastWins(kids, i + 1)
         IN IF ~later.isNull THEN later
            ELSE IF TypeOf(value) = "object" /\ value.tag # "null" /\ ~IsArray(value)
              THEN IF hasPage /\ (hasPerPage \/ hasTotal)
                     THEN PagePagination(key, value)
                   ELSE IF hasOffset /\ hasLimit
                     THEN OffsetPagination(key)
                   ELSE NullPagination
              ELSE NullPagination

\* for (const key in obj) of detectPagination
RECURSIVE ScanPagination(_, _)
ScanPagination(kids, i) ==
    IF i > Len(kids) THEN NullPagination
    ELSE LET key == kids[i].k
             value == kids[i].v
             hasPage == \/ HasKey(value, "page") \/ HasKey(value, "current_page")
                        \/ HasKey(value, "currentPage")
             hasPerPage == \/ HasKey(value, "per_page") \/ HasKey(value, "page_size")
                           \/ HasKey(value, "perPage") \/ HasKey(value, "pageSize")
             hasTotal == \/ HasKey(value, "total") \/ HasKey(value, "total_count")
                         \/ HasKey(value, "totalCount")
             hasOffset == HasKey(value, "offset")
             hasLimit == HasKey(value, "limit")
         IN IF TypeOf(value) = "object" /\ value.tag # "null" /\ ~IsArray(value)
              THEN IF hasPage /\ (hasPerPage \/ hasTotal)
                     THEN PagePagination(key, value)
                   ELSE IF hasOffset /\ hasLimit
                     THEN OffsetPagination(key)
                   ELSE ScanPagination(kids, i + 1)
              ELSE ScanPagination(kids, i + 1)

detectPagination(obj) ==
    IF TypeOf(obj) # "object" \/ obj.tag = "null" THEN NullPagination
    ELSE ScanPagination(obj.kids, 1)

NullSchema ==
    [isNull |-> TRUE, samplePath |-> Absent, fields |-> <<>>,
     pagination |-> NullPagination]

MkSchema(samplePath, fields, pagination) ==
    [isNull |-> FALSE, samplePath |-> samplePath, fields |-> fields,
     pagination |-> pagination]

\* variant: every element of the record array is sampled
SampleCount_All(length) == length

\* Math.min(5, length)
SampleCount(length) == IF 5 < length THEN 5 ELSE length

\* variant: pagination is detected for top-level arrays as well
SchemaPagination_NoArrayCheck(data) == detectPagination(data)

\* Array.isArray(data) ? null : detectPagination(data, headers)
SchemaPagination(data) ==
    IF IsArray(data) THEN NullPagination ELSE detectPagination(data)

inferSchema(data) ==
    IF data.tag \in {"null", "undefined"} THEN NullSchema
    ELSE IF IsArray(data) /\ Len(data.kids) = 0 THEN NullSchema
    ELSE IF IsArray(data)
      THEN MkSchema("$",
                    mergeFieldTypes(Slice(data, SampleCount(Len(data.kids)))),
                    SchemaPagination(data))
    ELSE IF TypeOf(data) = "object"
      THEN LET arrayKey == findArrayPath(data) IN
           IF Truthy(arrayKey)
             THEN LET array == Get(data, arrayKey.str) IN
                  MkSchema("$." \o arrayKey.str,
                           mergeFieldTypes(Slice(array, SampleCount(Len(array.kids)))),
                           SchemaPagination(data))
             ELSE NullSchema
    ELSE NullSchema

----------------------------------------------------------------------------
\* Inputs of the schema functions

\* all sequences over S of length at most n
SeqsUpTo(S, n) == UNION { [1 .. k -> S] : k \in 0 .. n }

RECURSIVE ToSeq(_, _)
ToSeq(f, i) == IF i > Len(f) THEN <<>> ELSE <<f[i]>> \o ToSeq(f, i + 1)

\* records as the mock server and the tests use them; the samples disagree
\* on the type and on the position of "id"
R1 == JObj(<<Entry("id", JNum(10)), Entry("name", JStr("A"))>>)
R2 == JObj(<<Entry("name", JStr("B")), Entry("id", JStr("x"))>>)
R3 == JObj(<<Entry("id", JNum(25)), Entry("extra", JBool(TRUE))>>)
R4 == JObj(<<Entry("id", JNull), Entry("tags", JArr(<<JNum(10)>>)),
             Entry("meta", JObj(<<>>))>>)

CoreRecords == {R1, R2, R3}

\* array elements of every JSON kind
AllElems ==
    CoreRecords \cup
    { R4, JNum(70), JNull, JStr("abc"), JArr(<<JNum(10), JStr("a")>>) }

PageMeta == JObj(<<Entry("page", JNum(10)), Entry("per_page", JNum(100)),
                   Entry("total", JNum(1000))>>)
OffsetMeta == JObj(<<Entry("offset", JNum(0)), Entry("limit", JNum(100))>>)

\* values of the properties of a wrapping object
PropValues ==
    { JArr(<<>>), JArr(<<R1>>), JArr(<<R2, R3>>),
      JArr(<<R1, R1, R1, R1, R1, R3>>),
      JNum(30), JStr("ok"), PageMeta, OffsetMeta }

\* property names of a wrapping object (JSON allows the empty name)
PropKeys == {"", "data", "items", "meta"}

RECURSIVE ZipEntries(_, _, _)
ZipEntries(ks, vs, i) ==
    IF i > Len(ks) THEN <<>>
    ELSE <<Entry(ks[i], vs[i])>> \o ZipEntries(ks, vs, i + 1)

\* wrapping objects: at most MaxProps properties with distinct names
WrappedObjects ==
    { JObj(ZipEntries(ks, vs, 1)) :
        <<ks, vs>> \in
          UNION { { kv \in [1 .. n -> PropKeys] \X [1 .. n -> PropValues] :
                      \A i, j \in 1 .. n : i # j => kv[1][i] # kv[1][j] } :
                  n \in 0 .. MaxProps } }

TopArrays ==
    { JArr(ToSeq(f, 1)) : f \in SeqsUpTo(CoreRecords, MaxLongLen) } \cup
    { JArr(ToSeq(f, 1)) : f \in SeqsUpTo(AllElems, MaxShortLen) }

Scalars == { JNull, JUndefined, JNum(70), JNum(15), JStr("abc"), JStr(""),
             JBool(TRUE) }

\* top-level arrays whose elements look like pagination metadata
PaginatedArrays ==
    { JArr(<<PageMeta>>), JArr(<<R1, OffsetMeta>>),
      JArr(<<JObj(<<Entry("meta", PageMeta)>>)>>) }

DataInputs == Scalars \cup TopArrays \cup PaginatedArrays \cup WrappedObjects

SampleInputs ==
    { JNull, JUndefined } \cup
    { JArr(ToSeq(f, 1)) : f \in SeqsUpTo(AllElems, MaxSamples) }

----------------------------------------------------------------------------
\* generator.js.  Strings whose characters the code inspects (header names,
\* samplePath, field types) are sequences of one-character strings.

UpperCase == <<"A", "B", "C", "D", "E", "F", "G", "H", "I", "J", "K", "L", "M", "N", "O", "P", "Q", "R", "S", "T", "U", "V", "W", "X", "Y", "Z">>
LowerCase == <<"a", "b", "c", "d", "e", "f", "g", "h", "i", "j", "k", "l", "m", "n", "o", "p", "q", "r", "s", "t", "u", "v", "w", "x", "y", "z">>

\* one character of String.prototype.toLowerCase
LowerChar(c) ==
    IF \E i \in 1 .. Len(UpperCase) : UpperCase[i] = c
      THEN LowerCase[CHOOSE i \in 1 .. Len(UpperCase) : UpperCase[i] = c]
      ELSE c

\* variant: the name is compared as written
ToLowerCase_Identity(str) == str

\* key.toLowerCase()
ToLowerCase(str) == [i \in 1 .. Len(str) |-> LowerChar(str[i])]

\* str.includes(pat), scanning the start positions from pos on
RECURSIVE IncludesFrom(_, _, _)
IncludesFrom(str, pat, pos) ==
    IF pos + Len(pat) - 1 > Len(str) THEN FALSE
    ELSE IF SubSeq(str, pos, pos + Len(pat) - 1) = pat THEN TRUE
    ELSE IncludesFrom(str, pat, pos + 1)

Includes(str, pat) == IncludesFrom(str, pat, 1)

\* the characters of a string joined into one string
RECURSIVE Str(_)
Str(chars) == IF chars = <<>> THEN "" ELSE Head(chars) \o Str(Tail(chars))

\* str.replace(c, '') for a one-character pattern: the first occurrence goes
RECURSIVE ReplaceFirst(_, _)
ReplaceFirst(chars, c) ==
    IF chars = <<>> THEN <<>>
    ELSE IF Head(chars) = c THEN Tail(chars)
    ELSE <<Head(chars)>> \o ReplaceFirst(Tail(chars), c)

SENSITIVE_HEADERS ==
    << <<"a", "u", "t", "h", "o", "r", "i", "z", "a", "t", "i", "o", "n">>,
       <<"a", "p", "i", "-", "k", "e", "y">>,
       <<"a", "p", "i", "_", "k", "e", "y">>,
       <<"a", "p", "i", "k", "e", "y">>,
       <<"x", "-", "a", "p", "i", "-", "k", "e", "y">>,
       <<"x", "-", "a", "u", "t", "h", "-", "t", "o", "k", "e", "n">>,
       <<"t", "o", "k", "e", "n">>,
       <<"s", "e", "c", "r", "e", "t">>,
       <<"p", "a", "s", "s", "w", "o", "r", "d">>,
       <<"b", "e", "a", "r", "e", "r">> >>

\* SENSITIVE_HEADERS.some(sensitive => lowerKey.includes(sensitive))
IsSensitive(key) ==
    LET lowerKey == ToLowerCase(key) IN
    \E i \in 1 .. Len(SENSITIVE_HEADERS) : Includes(lowerKey, SENSITIVE_HEADERS[i])

\* variant: part of the original value is kept behind a marker
MaskedValue_KeepsValue(value) == "***" \o value

\* the value stored for a sensitive header
MaskedValue(value) == "<masked>"

RECURSIVE MaskEntries(_, _)
MaskEntries(entries, i) ==
    IF i > Len(entries) THEN <<>>
    ELSE <<[k |-> entries[i].k,
            v |-> IF IsSensitive(entries[i].k) THEN MaskedValue(entries[i].v)
                  ELSE entries[i].v]>>
         \o MaskEntries(entries, i + 1)

\* a headers argument: an object with entries, or undefined / null / a string
HeadersObject(entries) == [kind |-> "object", entries |-> entries]
HeadersOther(kind) == [kind |-> kind, entries |-> <<>>]

maskSensitiveHeaders(headers) ==
    IF headers.kind # "object" THEN <<>>
    ELSE MaskEntries(headers.entries, 1)

\* variant: the default is used whatever the value is
OrDefault_Always(value, default) == default

\* value || default, for strings
OrDefault(value, default) ==
    IF value = Absent \/ value = "" THEN default ELSE value

\* const { headers = {}, queryParams = {}, fields = [] } = schema
DefaultHeaders(headers) ==
    IF headers.kind = "undefined" THEN HeadersObject(<<>>) ELSE headers

generateDatasourceJSON(schema, opts) ==
    LET fields == IF schema.fieldsGiven THEN schema.fields ELSE <<>>
        queryParams == IF schema.queryParamsGiven THEN schema.queryParams ELSE <<>>
        maskedHeaders == maskSensitiveHeaders(DefaultHeaders(schema.headers))
        datasource == [name |-> OrDefault(opts.name, "API Datasource"),
                       type |-> "restapi",
                       url |-> schema.url,
                       method |-> "GET",
                       headers |-> maskedHeaders,
                       queryParams |-> queryParams]
    IN [datasource |-> datasource,
        fields |-> fields,
        samplePath |-> IF schema.samplePathGiven /\ schema.samplePath # <<>>
                         THEN Str(schema.samplePath) ELSE "$",
        pagination |-> IF schema.pagination.kind = "object"
                         THEN schema.pagination
                         ELSE [schema.pagination EXCEPT !.kind = "null"]]

Chars_integer == <<"i", "n", "t", "e", "g", "e", "r">>
Chars_number == <<"n", "u", "m", "b", "e", "r">>
Chars_string == <<"s", "t", "r", "i", "n", "g">>
Chars_boolean == <<"b", "o", "o", "l", "e", "a", "n">>
Chars_object == <<"o", "b", "j", "e", "c", "t">>
Chars_array == <<"a", "r", "r", "a", "y">>
Chars_null == <<"n", "u", "l", "l">>

\* variant: a union of numeric tags is mapped like its constituents
mapFieldType_NumericUnion(type) ==
    IF type \in {Chars_integer, Chars_number,
                 Chars_integer \o <<"|">> \o Chars_number} THEN "number"
    ELSE IF type = Chars_boolean THEN "boolean"
    ELSE "text"

mapFieldType(type) ==
    IF type # <<>> /\ Includes(type, <<"|">>) THEN "text"
    ELSE IF type = Chars_integer THEN "number"
    ELSE IF type = Chars_number THEN "number"
    ELSE IF type = Chars_string THEN "text"
    ELSE IF type = Chars_boolean THEN "boolean"
    ELSE IF type = Chars_object THEN "text"
    ELSE IF type = Chars_array THEN "text"
    ELSE IF type = Chars_null THEN "text"
    ELSE "text"

\* variant: the selector always starts at the root
ColumnSelector_Root(samplePath, name) == "$[]." \o name

\* `${samplePath}[].${field.name}`
ColumnSelector(samplePath, name) == Str(samplePath) \o "[]." \o name

RECURSIVE Columns(_, _, _)
Columns(fields, samplePath, i) ==
    IF i > Len(fields) THEN <<>>
    ELSE <<[name |-> fields[i].name,
            key |-> fields[i].name,
            type |-> mapFieldType(fields[i].type),
            selector |-> ColumnSelector(samplePath, fields[i].name)]>>
         \o Columns(fields, samplePath, i + 1)

NoMetaPaths ==
    [currentPage |-> Absent, perPage |-> Absent, offset |-> Absent,
     limit |-> Absent, total |-> Absent]

NoPaginationComponent ==
    [present |-> FALSE, component |-> Absent, type |-> Absent,
     pageParam |-> Absent, limitParam |-> Absent, metaPaths |-> NoMetaPaths]

\* variant: an offset-type pagination passes its offset parameter on
PaginationComponent_OffsetAsPage(pagination) ==
    [present |-> TRUE,
     component |-> "Pagination",
     type |-> pagination.type,
     pageParam |-> IF pagination.offsetParam # Absent THEN pagination.offsetParam
                   ELSE OrDefault(pagination.pageParam, "page"),
     limitParam |-> OrDefault(pagination.limitParam, "limit"),
     metaPaths |-> IF pagination.hasMetaPaths THEN pagination.metaPaths
                   ELSE NoMetaPaths]

\* components.pagination = { component: 'Pagination', ... }
PaginationComponent(pagination) ==
    [present |-> TRUE,
     component |-> "Pagination",
     type |-> pagination.type,
     pageParam |-> OrDefault(pagination.pageParam, "page"),
     limitParam |-> OrDefault(pagination.limitParam, "limit"),
     metaPaths |-> IF pagination.hasMetaPaths THEN pagination.metaPaths
                   ELSE NoMetaPaths]

generateImportWrapper(schema, opts) ==
    LET fields == IF schema.fieldsGiven THEN schema.fields ELSE <<>>
        samplePath == IF schema.samplePathGiven THEN schema.samplePath ELSE <<"$">>
        pagination == schema.pagination
        datasourceConfig == generateDatasourceJSON(schema, opts)
        columns == Columns(fields, samplePath, 1)
        components ==
            [table |-> [component |-> "Table",
                        dataBinding |-> "{{datasource.data"
                                        \o Str(ReplaceFirst(samplePath, "$")) \o "}}",
                        columns |-> columns],
             pagination |-> IF pagination.kind = "object"
                              THEN PaginationComponent(pagination)
                              ELSE NoPaginationComponent]
    IN [version |-> "1.0.0",
        datasource |-> datasourceConfig.datasource,
        components |-> components,
        metadata |-> [samplePath |-> Str(samplePath),
                      fieldCount |-> Len(fields),
                      hasPagination |-> pagination.kind = "object"]]

\* Inputs of the generator

HeaderNames ==
    << <<"A", "u", "t", "h", "o", "r", "i", "z", "a", "t", "i", "o", "n">>,
       <<"A", "P", "I", "-", "K", "e", "y">>,
       <<"a", "p", "i", "_", "k", "e", "y">>,
       <<"X", "-", "A", "u", "t", "h", "-", "T", "o", "k", "e", "n">>,
       <<"C", "l", "i", "e", "n", "t", "-", "S", "e", "c", "r", "e", "t">>,
       <<"P", "a", "s", "s", "W", "o", "r", "d">>,
       <<"C", "o", "n", "t", "e", "n", "t", "-", "T", "y", "p", "e">>,
       <<"A", "c", "c", "e", "p", "t">>,
       <<"A", "u", "t", "h", "o", "r">>,
       <<"X", "-", "R", "e", "q", "u", "e", "s", "t", "-", "I", "d">> >>

HeaderValues == {"Bearer xyz", "application/json", "<masked>"}

\* header maps with at most MaxHeaders of the names, in the order above
HeaderMaps ==
    UNION { { ToSeq([i \in 1 .. n |-> [k |-> HeaderNames[c[1][i]], v |-> c[2][i]]], 1) :
                c \in { d \in [1 .. n -> 1 .. Len(HeaderNames)] \X [1 .. n -> HeaderValues] :
                          \A i \in 1 .. n - 1 : d[1][i] < d[1][i + 1] } } :
            n \in 0 .. MaxHeaders }

TestHeaders ==
    HeadersObject(<<[k |-> HeaderNames[1], v |-> "Bearer xyz"],
                    [k |-> HeaderNames[8], v |-> "application/json"]>>)

GenField(name, type) == [name |-> name, type |-> type, sample |-> JNum(10)]

\* field lists as /api/test returns them, and one with an unknown type
FieldLists ==
    { <<>>,
      <<GenField("id", Chars_integer), GenField("name", Chars_string)>>,
      <<GenField("id", <<"i", "n", "t", "e", "g", "e", "r", "|", "n", "u", "m", "b", "e", "r", "|", "s", "t", "r", "i", "n", "g">>),
        GenField("name", Chars_string), GenField("extra", Chars_boolean)>>,
      <<GenField("id", Chars_null), GenField("tags", Chars_array),
        GenField("meta", Chars_object)>>,
      <<GenField("amount", Chars_number), GenField("when", <<"d", "a", "t", "e">>),
        GenField("ratio", <<"i", "n", "t", "e", "g", "e", "r", "|", "n", "u", "m", "b", "e", "r">>), GenField("note", <<>>)>>,
      <<GenField("mixed", Chars_boolean \o <<"|">> \o Chars_number \o <<"|">> \o Chars_string),
        GenField("ratio", Chars_integer \o <<"|">> \o Chars_number),
        GenField("flag", Chars_boolean)>> }

SamplePaths == { <<"$">>, <<"$", ".", "o", "r", "d", "e", "r", "s">>, <<>>, <<"$", ".", "a", "$", "b">> }

GenPagination(kind, type, pageParam, offsetParam, limitParam, hasMetaPaths, metaPaths) ==
    [kind |-> kind, type |-> type, pageParam |-> pageParam,
     offsetParam |-> offsetParam, limitParam |-> limitParam,
     hasMetaPaths |-> hasMetaPaths, metaPaths |-> metaPaths]

\* a pagination value produced by detectPagination, sent back by the client
FromSchema(p) ==
    GenPagination("object", p.type, p.pageParam, p.offsetParam, p.limitParam,
                  TRUE, p.metaPaths)

PaginationChoices ==
    { GenPagination("undefined", Absent, Absent, Absent, Absent, FALSE, NoMetaPaths),
      GenPagination("null", Absent, Absent, Absent, Absent, FALSE, NoMetaPaths),
      FromSchema(PagePagination("meta", PageMeta)),
      FromSchema(OffsetPagination("meta")),
      GenPagination("object", "page", Absent, Absent, Absent, FALSE, NoMetaPaths),
      GenPagination("object", "cursor", "p", Absent, "size", FALSE, NoMetaPaths) }

GenSchema(fields, fieldsGiven, samplePath, samplePathGiven, pagination, headers, queryParams, queryParamsGiven) ==
    [url |-> "http://api.example.com/orders",
     fields |-> fields, fieldsGiven |-> fieldsGiven,
     samplePath |-> samplePath, samplePathGiven |-> samplePathGiven,
     pagination |-> pagination, headers |-> headers,
     queryParams |-> queryParams, queryParamsGiven |-> queryParamsGiven]

TestQuery == <<[k |-> "limit", v |-> "10"]>>

\* schemas that vary the headers, and schemas that vary everything else
GenInputs ==
    { GenSchema(<<GenField("id", Chars_integer), GenField("name", Chars_string)>>,
                TRUE, <<"$", ".", "o", "r", "d", "e", "r", "s">>, TRUE,
                FromSchema(PagePagination("meta", PageMeta)), h, TestQuery, TRUE) :
        h \in { HeadersObject(m) : m \in HeaderMaps }
              \cup { HeadersOther("null"), HeadersOther("string") } }
    \cup
    { GenSchema(f[1], f[2], sp[1], sp[2], pg, h, q[1], q[2]) :
        f \in { <<l, TRUE>> : l \in FieldLists } \cup { <<(<<>>), FALSE>> },
        sp \in { <<c, TRUE>> : c \in SamplePaths } \cup { <<(<<>>), FALSE>> },
        pg \in PaginationChoices,
        h \in { HeadersOther("undefined"), TestHeaders },
        q \in { <<TestQuery, TRUE>>, <<(<<>>), FALSE>> } }

NoOpts == [name |-> Absent]

NoDatasource ==
    [datasource |-> [name |-> Absent, type |-> Absent, url |-> Absent,
                     method |-> Absent, headers |-> <<>>, queryParams |-> <<>>],
     fields |-> <<>>, samplePath |-> Absent,
     pagination |-> GenPagination("undefined", Absent, Absent, Absent, Absent,
                                  FALSE, NoMetaPaths)]

NoWrapper ==
    [version |-> Absent, datasource |-> NoDatasource.datasource,
     components |-> [table |-> [component |-> Absent, dataBinding |-> Absent,
                                columns |-> <<>>],
                     pagination |-> NoPaginationComponent],
     metadata |-> [samplePath |-> Absent, fieldCount |-> 0,
                   hasPagination |-> FALSE]]

GenIdle ==
    /\ genIn = GenSchema(<<>>, FALSE, <<>>, FALSE,
                         GenPagination("undefined", Absent, Absent, Absent, Absent,
                                       FALSE, NoMetaPaths),
                         HeadersOther("undefined"), <<>>, FALSE)
    /\ maskOut = <<>>
    /\ maskAgain = <<>>
    /\ datasourceOut = NoDatasource
    /\ wrapperOut = NoWrapper

----------------------------------------------------------------------------
\* JSON text.  A text is the sequence of its tokens: punctuation, string
\* literals, number literals, the literals null/true/false, white space and
\* anything else ("junk", which no JSON grammar rule accepts).
Tok(kind, lex, n, s) == [kind |-> kind, lex |-> lex, n |-> n, s |-> s]
TPunct(c) == Tok("punct", c, 0, "")
TStr(s) == Tok("string", "\"" \o s \o "\"", 0, s)
TNum(lex, units) == Tok("number", lex, units, "")
TLit(lex) == Tok("literal", lex, 0, "")
TSpace == Tok("space", " ", 0, "")
TJunk(lex) == Tok("junk", lex, 0, "")

RECURSIVE Lexemes(_)
Lexemes(text) ==
    IF text = <<>> THEN <<>> ELSE <<Head(text).lex>> \o Lexemes(Tail(text))

\* the characters of a text, as one string
TextOf(text) == Str(Lexemes(text))

\* white space between tokens is not significant; str.trim() === '' holds
\* exactly when nothing else is left
RECURSIVE Strip(_)
Strip(text) ==
    IF text = <<>> THEN <<>>
    ELSE IF Head(text).kind = "space" THEN Strip(Tail(text))
    ELSE <<Head(text)>> \o Strip(Tail(text))

ParseFail == [ok |-> FALSE, v |-> JUndefined, next |-> 0]
ParseOk(v, next) == [ok |-> TRUE, v |-> v, next |-> next]

IsPunct(t, i, c) == i <= Len(t) /\ t[i].kind = "punct" /\ t[i].lex = c

\* obj[k] = v while parsing: a repeated key keeps its place and takes the
\* later value
RECURSIVE PutEntry(_, _, _)
PutEntry(entries, k, v) ==
    IF entries = <<>> THEN <<Entry(k, v)>>
    ELSE IF Head(entries).k = k THEN <<Entry(k, v)>> \o Tail(entries)
    ELSE <<Head(entries)>> \o PutEntry(Tail(entries), k, v)

RECURSIVE ParseValue(_, _), ParseElems(_, _, _), ParseMembers(_, _, _)
\* value := string | number | literal | array | object, starting at token i
ParseValue(t, i) ==
    IF i > Len(t) THEN ParseFail
    ELSE IF t[i].kind = "string" THEN ParseOk(JStr(t[i].s), i + 1)
    ELSE IF t[i].kind = "number" THEN ParseOk(JNum(t[i].n), i + 1)
    ELSE IF t[i].kind = "literal"
      THEN ParseOk(IF t[i].lex = "null" THEN JNull ELSE JBool(t[i].lex = "true"),
                   i + 1)
    ELSE IF IsPunct(t, i, "[")
      THEN (IF IsPunct(t, i + 1, "]") THEN ParseOk(JArr(<<>>), i + 2)
            ELSE ParseElems(t, i + 1, <<>>))
    ELSE IF IsPunct(t, i, "{")
      THEN (IF IsPunct(t, i + 1, "}") THEN ParseOk(JObj(<<>>), i + 2)
            ELSE ParseMembers(t, i + 1, <<>>))
    ELSE ParseFail

\* elements := value ("," value)* "]"
ParseElems(t, i, acc) ==
    LET r == ParseValue(t, i) IN
    IF ~r.ok THEN ParseFail
    ELSE IF IsPunct(t, r.next, ",") THEN ParseElems(t, r.next + 1, Append(acc, r.v))
    ELSE IF IsPunct(t, r.next, "]") THEN ParseOk(JArr(Append(acc, r.v)), r.next + 1)
    ELSE ParseFail

\* members := string ":" value ("," string ":" value)* "}"
ParseMembers(t, i, acc) ==
    IF ~(i <= Len(t) /\ t[i].kind = "string" /\ IsPunct(t, i + 1, ":"))
      THEN ParseFail
    ELSE LET r == ParseValue(t, i + 2) IN
         IF ~r.ok THEN ParseFail
         ELSE IF IsPunct(t, r.next, ",")
           THEN ParseMembers(t, r.next + 1, PutEntry(acc, t[i].s, r.v))
         ELSE IF IsPunct(t, r.next, "}")
           THEN ParseOk(JObj(PutEntry(acc, t[i].s, r.v)), r.next + 1)
         ELSE ParseFail

\* JSON.parse(text): the whole text must be one value; ok = FALSE stands for
\* the SyntaxError it throws
JSONParse(text) ==
    LET t == Strip(text)
        r == ParseValue(t, 1)
    IN IF r.ok /\ r.next = Len(t) + 1 THEN r ELSE ParseFail

\* texts that are JSON
TxOrders ==
    <<TPunct("{"), TStr("orders"), TPunct(":"), TPunct("["),
      TPunct("{"), TStr("id"), TPunct(":"), TNum("1", 10), TPunct("}"),
      TPunct("]"), TPunct("}")>>
TxRecords ==
    <<TPunct("["), TPunct("{"), TStr("id"), TPunct(":"), TNum("1", 10), TPunct("}"),
      TPunct(","), TSpace,
      TPunct("{"), TStr("id"), TPunct(":"), TStr("x"), TPunct("}"), TPunct("]")>>
TxEmptyArray == <<TPunct("["), TPunct("]")>>
TxEmptyObject == <<TPunct("{"), TPunct("}")>>
TxError == <<TPunct("{"), TStr("error"), TPunct(":"), TStr("Unauthorized"), TPunct("}")>>
TxNumber == <<TNum("42", 420)>>
TxNull == <<TLit("null")>>
TxWord == <<TStr("abc")>>
TxQuotedNumber == <<TStr("42")>>
ValidTexts ==
    { TxOrders, TxRecords, TxEmptyArray, TxEmptyObject, TxError, TxNumber,
      TxNull, TxWord, TxQuotedNumber }

\* texts that are not JSON
TxHtml == <<TJunk("<!DOCTYPE html>"), TJunk("<html>"), TJunk("</html>")>>
TxBare == <<TJunk("abc")>>
TxTruncated == <<TPunct("{"), TStr("orders"), TPunct(":"), TPunct("["), TPunct("{")>>
TxTrailingComma == <<TPunct("["), TNum("1", 10), TPunct(","), TPunct("]")>>
TxNoColon == <<TPunct("{"), TStr("id"), TNum("1", 10), TPunct("}")>>
TxTwoValues == <<TPunct("{"), TPunct("}"), TPunct("{"), TPunct("}")>>
TxBlank == <<TSpace, TSpace>>
TxEmpty == <<>>
InvalidTexts ==
    { TxHtml, TxBare, TxTruncated, TxTrailingComma, TxNoColon, TxTwoValues,
      TxBlank, TxEmpty }

Texts == ValidTexts \cup InvalidTexts

\* the tokens of a string: of a known text those it was written with, of
\* any other string one token that is no JSON
Tokenize(s) ==
    IF \E t \in Texts : TextOf(t) = s
      THEN CHOOSE t \in Texts : TextOf(t) = s
      ELSE <<TJunk(s)>>

----------------------------------------------------------------------------
\* lib/fetcher.js: isJsonResponse, generateHints

CT_json == <<"a", "p", "p", "l", "i", "c", "a", "t", "i", "o", "n", "/", "j", "s", "o", "n">>
CT_jsonUtf8 == CT_json \o <<";", " ", "c", "h", "a", "r", "s", "e", "t", "=", "u", "t", "f", "-", "8">>
CT_html == <<"t", "e", "x", "t", "/", "h", "t", "m", "l", ";", " ", "c", "h", "a", "r", "s", "e", "t", "=", "u", "t", "f", "-", "8">>
CT_problem == <<"a", "p", "p", "l", "i", "c", "a", "t", "i", "o", "n", "/", "p", "r", "o", "b", "l", "e", "m", "+", "j", "s", "o", "n">>
\* response headers: only Content-Type is read
WithContentType(chars) == [hasContentType |-> TRUE, contentType |-> chars]
NoContentType == [hasContentType |-> FALSE, contentType |-> <<>>]
ResponseHeaders ==
    { WithContentType(c) : c \in {CT_json, CT_jsonUtf8, CT_html, CT_problem} }
    \cup {NoContentType}

\* headers['content-type'] || ''
ContentTypeOf(headers) ==
    IF headers.hasContentType THEN headers.contentType ELSE <<>>

\* response.data as axios delivers it with its default settings: the parsed
\* value when the body parses as JSON, the body text itself otherwise
AxiosData(body) ==
    LET r == JSONParse(body) IN
    IF body # <<>> /\ r.ok THEN r.v ELSE JStr(TextOf(body))

isJsonResponse(data, headers) ==
    LET contentType == ContentTypeOf(headers) IN
    IF Includes(contentType, CT_json) THEN TRUE
    ELSE IF TypeOf(data) = "object" /\ data.tag # "null" THEN TRUE
    ELSE IF TypeOf(data) = "string" THEN JSONParse(Tokenize(data.s)).ok
    ELSE FALSE

generateHints(status, errorType) ==
    IF status = 401 THEN "Authentication failed. Check if your API key or token is correct and properly formatted in the Authorization header."
    ELSE IF status = 403 THEN "Access forbidden. Your credentials may be valid but lack permission to access this resource."
    ELSE IF status = 404 THEN "Resource not found. Verify the URL path is correct and the endpoint exists."
    ELSE IF status = 429 THEN "Rate limit exceeded. Wait before retrying or check your rate limit settings."
    ELSE IF status >= 500 THEN "Server error. The API is experiencing issues. Try again later or contact the API provider."
    ELSE IF errorType \in {"ECONNREFUSED", "NETWORK_ERROR"} THEN "Cannot connect to server. Check if the URL is correct and the server is running."
    ELSE IF errorType \in {"ETIMEDOUT", "ECONNABORTED"} THEN "Request timed out. The server may be slow or unreachable."
    ELSE "Request failed. Check your URL, headers, and network connection."

----------------------------------------------------------------------------
\* Persistence: controllers/apiTestController.js, datasourceController.js

\* what the database does during a request: it is connected and works, it
\* is disconnected, or it is connected and one kind of operation rejects
DbModes == {"connected", "disconnected", "failFind", "failSave"}

\* isConnected()
IsConnected(mode) == mode # "disconnected"

EmptyDb == [apiTests |-> <<>>, datasources |-> <<>>]

\* an ApiTest document; id is its place in the collection
ApiTestDoc(id, url, success, status, testCount, testedAt) ==
    [id |-> id, url |-> url, success |-> success, status |-> status,
     testCount |-> testCount, testedAt |-> testedAt]

NullDoc == ApiTestDoc(0, Absent, FALSE, 0, 0, 0)

\* Date.now(): later than every time stored so far
RECURSIVE MaxTestedAt(_)
MaxTestedAt(docs) ==
    IF docs = <<>> THEN 0
    ELSE LET m == MaxTestedAt(Tail(docs)) IN
         IF Head(docs).testedAt > m THEN Head(docs).testedAt ELSE m

Now(db) == MaxTestedAt(db.apiTests) + 1

\* ApiTest.findOne({ url }).sort({ testedAt: -1 }): the most recently tested
\* document of the URL, NullDoc when there is none
FindOne(docs, url) ==
    LET matching == { i \in 1 .. Len(docs) : docs[i].url = url } IN
    IF matching = {} THEN NullDoc
    ELSE docs[CHOOSE i \in matching :
                \A j \in matching :
                   \/ docs[j].testedAt < docs[i].testedAt
                   \/ docs[j].testedAt = docs[i].testedAt /\ i <= j]

\* testData of a saveApiTest call
TestData(url, success, status) == [url |-> url, success |-> success, status |-> status]

\* the assignments to existingTest followed by incrementTestCount()
Updated(doc, testData, now) ==
    [doc EXCEPT !.success = testData.success, !.status = testData.status,
                !.testCount = doc.testCount + 1, !.testedAt = now]

\* new ApiTest(testData): testCount and testedAt take their defaults
Created(docs, testData, now) ==
    ApiTestDoc(Len(docs) + 1, testData.url, testData.success, testData.status, 1, now)

\* document.save(): the document replaces the stored one with its id, or is
\* inserted when it is new
SaveDoc(docs, doc) ==
    IF doc.id <= Len(docs) THEN [docs EXCEPT ![doc.id] = doc] ELSE Append(docs, doc)

SaveResult(threw, returnedNull, db) ==
    [threw |-> threw, returnedNull |-> returnedNull, db |-> db]

\* variant: a rejected storage operation is not caught
saveApiTest_Rethrows(testData, mode, db) ==
    IF ~IsConnected(mode) THEN SaveResult(FALSE, TRUE, db)
    ELSE IF mode \in {"failFind", "failSave"} THEN SaveResult(TRUE, TRUE, db)
    ELSE LET existingTest == FindOne(db.apiTests, testData.url)
             doc == IF existingTest # NullDoc
                      THEN Updated(existingTest, testData, Now(db))
                      ELSE Created(db.apiTests, testData, Now(db))
         IN SaveResult(FALSE, FALSE,
                       [db EXCEPT !.apiTests = SaveDoc(db.apiTests, doc)])

\* saveApiTest run without another call in between
saveApiTest(testData, mode, db) ==
    IF ~IsConnected(mode) THEN SaveResult(FALSE, TRUE, db)
    ELSE IF mode = "failFind" THEN SaveResult(FALSE, TRUE, db)
    ELSE LET existingTest == FindOne(db.apiTests, testData.url)
             doc == IF existingTest # NullDoc
                      THEN Updated(existingTest, testData, Now(db))
                      ELSE Created(db.apiTests, testData, Now(db))
         IN IF mode = "failSave" THEN SaveResult(FALSE, TRUE, db)
            ELSE SaveResult(FALSE, FALSE,
                            [db EXCEPT !.apiTests = SaveDoc(db.apiTests, doc)])

DatasourceDoc(name, url, fieldCount, hasPagination) ==
    [name |-> name, url |-> url, fieldCount |-> fieldCount,
     hasPagination |-> hasPagination]

saveDatasource(datasourceData, mode, db) ==
    IF ~IsConnected(mode) THEN SaveResult(FALSE, TRUE, db)
    ELSE IF mode = "failSave" THEN SaveResult(FALSE, TRUE, db)
    ELSE SaveResult(FALSE, FALSE,
                    [db EXCEPT !.datasources = Append(db.datasources, datasourceData)])

----------------------------------------------------------------------------
\* routes: POST /api/test, /api/test-sample, /api/generate

\* a response of a route: the HTTP status code and the fields of the JSON
\* body (rawSnippet, sample and contentType, texts cut from the data, are
\* not carried)
RouteRes(code, hasOk, ok, message, hints, status, errorType, schema, source) ==
    [code |-> code, hasOk |-> hasOk, ok |-> ok, message |-> message,
     hints |-> hints, status |-> status, errorType |-> errorType,
     schema |-> schema, source |-> source,
     wrapper |-> NoWrapper, datasource |-> NoDatasource]

NoRes == RouteRes(0, FALSE, FALSE, Absent, Absent, 0, Absent, NullSchema, Absent)

Failure(code, message, hints, status, errorType) ==
    RouteRes(code, TRUE, FALSE, message, hints, status, errorType, NullSchema, Absent)


\* new URL(url) does not throw
WellFormedUrls ==
    { "http://api.example.com/orders", "http://localhost:3001/html" }
IsUrl(url) == url \in WellFormedUrls

\* `HTTP ${response.status}: ${response.statusText || 'Request failed'}`
HttpMessage(response) ==
    "HTTP " \o ToString(response.status) \o ": "
    \o OrDefault(response.statusText, "Request failed")

Handled(sentRes, db, saves) == [res |-> sentRes, db |-> db, saves |-> saves]

SaveNote(fn, r) == [fn |-> fn, threw |-> r.threw, returnedNull |-> r.returnedNull]

\* the catch block of the /test handler
UnexpectedTest(db, saves) ==
    Handled(Failure(500, "Unexpected error: ", "An unexpected error occurred while testing the API.", 0, Absent), db, saves)

\* router.post('/test'): response is what fetchWithRetry resolved to
TestRoute(url, response, mode, db) ==
    IF url = Absent \/ url = ""
      THEN Handled(Failure(400, "URL is required", Absent, 0, Absent), db, <<>>)
    ELSE IF ~IsUrl(url)
      THEN Handled(Failure(400, "Invalid URL format", Absent, 0, Absent), db, <<>>)
    ELSE IF ~response.success /\ response.status = 0
      THEN LET s == saveApiTest(TestData(url, FALSE, 0), mode, db)
               saves == <<SaveNote("saveApiTest", s)>>
           IN IF s.threw THEN UnexpectedTest(s.db, saves)
              ELSE Handled(Failure(200, "Network error: " \o response.error,
                                   generateHints(0, response.errorType), 0,
                                   response.errorType),
                           s.db, saves)
    ELSE IF response.status >= 200 /\ response.status < 300
      THEN IF ~isJsonResponse(response.data, response.headers)
             THEN Handled(Failure(200, "Non-JSON response received", "The API returned non-JSON data. Try pasting a sample JSON response manually to continue.", response.status,
                                  Absent), db, <<>>)
           ELSE LET schema == inferSchema(response.data) IN
                IF schema.isNull
                  THEN Handled(Failure(200, "Could not infer schema from response",
                                       "The response may be empty or not contain array data.", response.status,
                                       Absent), db, <<>>)
                ELSE LET s == saveApiTest(TestData(url, TRUE, response.status),
                                          mode, db)
                         saves == <<SaveNote("saveApiTest", s)>>
                     IN IF s.threw THEN UnexpectedTest(s.db, saves)
                        ELSE Handled(RouteRes(200, TRUE, TRUE, Absent, Absent,
                                              response.status, Absent, schema,
                                              Absent),
                                     s.db, saves)
    ELSE LET s == saveApiTest(TestData(url, FALSE, response.status), mode, db)
             saves == <<SaveNote("saveApiTest", s)>>
         IN IF s.threw THEN UnexpectedTest(s.db, saves)
            ELSE Handled(Failure(200, HttpMessage(response),
                                 generateHints(response.status, Absent),
                                 response.status, Absent),
                         s.db, saves)

\* router.post('/test-sample'): sample is the pasted text
TestSampleRoute(hasSample, sample, db) ==
    IF ~hasSample \/ sample = <<>> \/ Strip(sample) = <<>>
      THEN Handled(Failure(400, "Sample JSON is required", Absent, 0, Absent), db, <<>>)
    ELSE LET parsed == JSONParse(sample) IN
         IF ~parsed.ok
           THEN Handled(Failure(200, "Invalid JSON: Could not parse the sample data", "Please ensure the pasted data is valid JSON format.", 0, Absent),
                        db, <<>>)
         ELSE LET schema == inferSchema(parsed.v) IN
              IF schema.isNull
                THEN Handled(Failure(200, "Could not infer schema from sample", "The sample data may be empty or not contain array data. Please provide a sample with an array of objects.",
                                     0, Absent), db, <<>>)
              ELSE Handled(RouteRes(200, TRUE, TRUE, Absent, Absent, 0, Absent,
                                    schema, "pasted-sample"),
                           db, <<>>)

\* router.post('/generate'): the body of a success is the generated JSON
GenerateRoute(hasSchema, schema, format, mode, db) ==
    IF ~hasSchema
      THEN Handled(Failure(400, "Schema is required", Absent, 0, Absent), db, <<>>)
    ELSE IF ~schema.fieldsGiven
      THEN Handled(Failure(400, "Schema must include fields array", Absent, 0, Absent), db, <<>>)
    ELSE LET s == saveDatasource(
                     DatasourceDoc(IF schema.url = Absent \/ schema.url = ""
                                     THEN "API Datasource"
                                     ELSE "Datasource for " \o schema.url,
                                   OrDefault(schema.url, "unknown"),
                                   Len(schema.fields),
                                   schema.pagination.kind = "object"),
                     mode, db)
             saves == <<SaveNote("saveDatasource", s)>>
             output == [NoRes EXCEPT !.code = 200]
         IN IF s.threw
              THEN Handled(Failure(500, "Failed to generate datasource: ", Absent,
                                   0, Absent), s.db, saves)
            ELSE IF format = "datasource"
              THEN Handled([output EXCEPT
                              !.datasource = generateDatasourceJSON(schema, NoOpts)],
                           s.db, saves)
            ELSE Handled([output EXCEPT
                            !.wrapper = generateImportWrapper(schema, NoOpts)],
                         s.db, saves)

----------------------------------------------------------------------------
\* Requests to the routes

\* what the tested API does when /test fetches it
Served(kind, resp, err, headers, body) ==
    [kind |-> kind, resp |-> resp, err |-> err, headers |-> headers, body |-> body]

NotServed == Served("none", [status |-> 0, statusText |-> Absent], NoError,
                    NoContentType, <<>>)

OkResponse == [status |-> 200, statusText |-> "OK"]

ServedChoices ==
    \* a 200 response with every body and every Content-Type
    { Served("response", OkResponse, NoError, h, b) :
        h \in ResponseHeaders, b \in Texts }
    \cup
    \* every other status, with the error body the mock server sends
    { Served("response", r, NoError, WithContentType(CT_jsonUtf8), TxError) :
        r \in Responses \ {OkResponse} }
    \cup
    \* no response at all
    { Served("network", NotServed.resp, e, NoContentType, <<>>) :
        e \in NetworkErrors }
    \cup
    \* axios rejects although a response arrived
    { Served("rejected", [status |-> 500, statusText |-> "Internal Server Error"],
             e, WithContentType(CT_html), TxHtml) :
        e \in {[message |-> "maxContentLength size of -1 exceeded",
                code |-> "ERR_BAD_RESPONSE"]} }

\* what fetchWithRetry resolves to for it, with the headers and data of the
\* response
Fetched(served) ==
    LET r == IF served.kind = "response" THEN SuccessResult(served.resp)
             ELSE IF served.kind = "rejected"
               THEN ErrorResponseResult(served.resp, served.err)
             ELSE ExhaustedResult(served.err)
    IN [success |-> r.success, status |-> r.status, statusText |-> r.statusText,
        error |-> r.error, errorType |-> r.errorType,
        headers |-> served.headers, data |-> AxiosData(served.body)]

NoGenSchema ==
    GenSchema(<<>>, FALSE, <<>>, FALSE,
              GenPagination("undefined", Absent, Absent, Absent, Absent,
                            FALSE, NoMetaPaths),
              HeadersOther("undefined"), <<>>, FALSE)

Req(route, url, served, hasSample, sample, hasSchema, schema, format) ==
    [route |-> route, url |-> url, served |-> served,
     hasSample |-> hasSample, sample |-> sample,
     hasSchema |-> hasSchema, schema |-> schema, format |-> format]

NoReq == Req("none", Absent, NotServed, FALSE, <<>>, FALSE, NoGenSchema, Absent)

RequestUrls == {Absent, "", "not a url", "http://api.example.com/orders"}

TestRequests ==
    { Req("test", u, NotServed, FALSE, <<>>, FALSE, NoGenSchema, Absent) :
        u \in { v \in RequestUrls : ~IsUrl(v) } }
    \cup
    { Req("test", u, s, FALSE, <<>>, FALSE, NoGenSchema, Absent) :
        u \in { v \in RequestUrls : IsUrl(v) }, s \in ServedChoices }

SampleRequests ==
    { Req("test-sample", Absent, NotServed, TRUE, t, FALSE, NoGenSchema, Absent) :
        t \in Texts }
    \cup
    { Req("test-sample", Absent, NotServed, FALSE, <<>>, FALSE, NoGenSchema, Absent) }

\* schemas as the form sends them, one without a fields array
GenerateSchemas ==
    { GenSchema(f[1], f[2], <<"$", ".", "o", "r", "d", "e", "r", "s">>, TRUE,
                pg, HeadersOther("undefined"), <<>>, FALSE) :
        f \in { <<l, TRUE>> : l \in FieldLists } \cup { <<(<<>>), FALSE>> },
        pg \in PaginationChoices }

GenerateRequests ==
    { Req("generate", Absent, NotServed, FALSE, <<>>, TRUE, s, f) :
        s \in GenerateSchemas, f \in {"full", "datasource"} }
    \cup
    { Req("generate", Absent, NotServed, FALSE, <<>>, FALSE, NoGenSchema, "full") }

\* the database before the request: empty, or holding an earlier test of
\* the URL
StoredBefore ==
    { EmptyDb,
      [EmptyDb EXCEPT !.apiTests =
          <<ApiTestDoc(1, "http://api.example.com/orders", FALSE, 401, 2, 7)>>] }

----------------------------------------------------------------------------
\* TestForm component

\* a value held in result, error or generatedToolJet: null, or the body of
\* the response to the request sent[of] ("schema": an ok:true body of a test,
\* "failure": an ok:false body, "wrapper": the JSON /api/generate produced,
\* "network": the error object the handler builds in its catch block)
Data(ok, of, body) == [isNull |-> FALSE, ok |-> ok, of |-> of, body |-> body]
NullData == [isNull |-> TRUE, ok |-> FALSE, of |-> 0, body |-> "null"]

\* useState initial values
InitialForm ==
    [url |-> "", authorization |-> "", loading |-> FALSE,
     result |-> NullData, error |-> NullData, generatedToolJet |-> NullData,
     generating |-> FALSE, showPasteSample |-> FALSE, sampleJSON |-> ""]

\* a fetch() call: its path, the url, headers and sample of its body, the
\* request whose response supplied the schema of its body, and how it settled
Sent(path, url, hasHeaders, sample, schemaOf) ==
    [path |-> path, url |-> url, hasHeaders |-> hasHeaders, sample |-> sample,
     schemaOf |-> schemaOf, outcome |-> "pending"]

\* what the user types
FormUrls == {"", "http://api.example.com/orders"}
FormAuthorizations == {"", "Bearer demo"}
FormSamples == {"", TextOf(TxRecords), TextOf(TxBare)}

\* how a fetch() call can settle: an ok:true body, an ok:false body, or a
\* rejection (of fetch or of response.json()).  /api/test answers a url it
\* rejects with ok:false, /api/test-sample answers as the route computes,
\* /api/generate answers the generated JSON or the failure of its catch block
Outcomes(request) ==
    {"failed"} \cup
    IF request.path = "/api/test"
      THEN (IF IsUrl(request.url) THEN {"ok", "notok"} ELSE {"notok"})
    ELSE IF request.path = "/api/test-sample"
      THEN (IF TestSampleRoute(TRUE, Tokenize(request.sample), EmptyDb).res.ok
              THEN {"ok"} ELSE {"notok"})
    ELSE {"ok", "notok"}

\* setLoading(true); setError(null); setResult(null); setGeneratedToolJet(null)
Started(f) ==
    [f EXCEPT !.loading = TRUE, !.error = NullData, !.result = NullData,
              !.generatedToolJet = NullData]

\* variant: loading is reset in the try block only, not in a finally
Settled_NoFinally(f, id, outcome) ==
    [f EXCEPT !.loading = IF outcome = "failed" THEN @ ELSE FALSE,
              !.result = IF outcome = "ok" THEN Data(TRUE, id, "schema") ELSE @,
              !.error = IF outcome = "notok" THEN Data(FALSE, id, "failure")
                        ELSE IF outcome = "failed" THEN Data(FALSE, id, "network")
                        ELSE @]

\* the handler after its await: if (data.ok) setResult(data) else
\* setError(data); catch: setError({...}); finally: setLoading(false)
Settled(f, id, outcome) ==
    [f EXCEPT !.loading = FALSE,
              !.result = IF outcome = "ok" THEN Data(TRUE, id, "schema") ELSE @,
              !.error = IF outcome = "notok" THEN Data(FALSE, id, "failure")
                        ELSE IF outcome = "failed" THEN Data(FALSE, id, "network")
                        ELSE @]


RouteIdle ==
    /\ req = NoReq
    /\ dbMode = "disconnected"
    /\ res = NoRes
    /\ saveLog = <<>>

SaveIdle ==
    /\ savers = <<>>
    /\ completed = <<>>

FormIdle ==
    /\ form = InitialForm
    /\ inflight = {}
    /\ sent = <<>>

AppIdle ==
    /\ RouteIdle
    /\ store = EmptyDb
    /\ SaveIdle
    /\ FormIdle

FetchIdle ==
    /\ pc = "idle"
    /\ maxRetries = 0
    /\ initialDelay = 0
    /\ attempt = 0
    /\ lastError = NoError
    /\ result = NoResult
    /\ requests = 0
    /\ sleeps = <<>>
    /\ received = <<>>
    /\ failures = <<>>
    /\ afterResponse = 0

SchemaIdle ==
    /\ dataIn = JUndefined
    /\ pathOut = NullKey
    /\ schemaOut = NullSchema
    /\ called = {}

MergeIdle ==
    /\ samplesIn = JUndefined
    /\ fieldsOut = <<>>

ProbeIdle ==
    /\ typeOut = Absent
    /\ pagOut = NullPagination

----------------------------------------------------------------------------
\* fetchWithRetry(options) is called
InitFetch ==
    /\ pc = "loop"
    /\ maxRetries \in RetryChoices
    /\ initialDelay \in DelayChoices
    /\ attempt = 0
    /\ lastError = NoError
    /\ result = NoResult
    /\ requests = 0
    /\ sleeps = <<>>
    /\ received = <<>>
    /\ failures = <<>>
    /\ afterResponse = 0
    /\ SchemaIdle
    /\ MergeIdle
    /\ ProbeIdle
    /\ GenIdle
    /\ AppIdle

\* while (attempt <= maxRetries) { try { await axios(...)
IssueRequest ==
    /\ pc = "loop"
    /\ LoopContinues(attempt, maxRetries)
    /\ pc' = "await"
    /\ requests' = requests + 1
    /\ afterResponse' = IF received # <<>> THEN afterResponse + 1 ELSE afterResponse
    /\ UNCHANGED <<maxRetries, initialDelay, attempt, lastError, result,
                   sleeps, received, failures>>
    /\ UNCHANGED schemaVars
    /\ UNCHANGED probeVars
    /\ UNCHANGED genVars
    /\ UNCHANGED appVars

\* variant: a 5xx response is treated as a failed attempt and retried
AxiosResolve_Retry5xx ==
    /\ pc = "await"
    /\ \E resp \in Responses :
          /\ received' = Append(received, resp.status)
          /\ IF resp.status >= 500
               THEN pc' = "loop" /\ UNCHANGED result
               ELSE pc' = "done" /\ result' = SuccessResult(resp)
    /\ UNCHANGED <<maxRetries, initialDelay, attempt, lastError,
                   requests, sleeps, failures, afterResponse>>
    /\ UNCHANGED schemaVars
    /\ UNCHANGED probeVars
    /\ UNCHANGED genVars
    /\ UNCHANGED appVars

\* axios resolves: validateStatus accepts every status, so any response lands here
AxiosResolve ==
    /\ pc = "await"
    /\ \E resp \in Responses :
          /\ received' = Append(received, resp.status)
          /\ result' = SuccessResult(resp)
    /\ pc' = "done"
    /\ UNCHANGED <<maxRetries, initialDelay, attempt, lastError,
                   requests, sleeps, failures, afterResponse>>
    /\ UNCHANGED schemaVars
    /\ UNCHANGED probeVars
    /\ UNCHANGED genVars
    /\ UNCHANGED appVars

\* axios rejects with an error that carries a response
AxiosRejectResponse ==
    /\ pc = "await"
    /\ \E resp \in Responses, err \in NetworkErrors :
          /\ lastError' = err
          /\ received' = Append(received, resp.status)
          /\ result' = ErrorResponseResult(resp, err)
    /\ attempt' = attempt + 1
    /\ pc' = "done"
    /\ UNCHANGED <<maxRetries, initialDelay, requests, sleeps, failures,
                   afterResponse>>
    /\ UNCHANGED schemaVars
    /\ UNCHANGED probeVars
    /\ UNCHANGED genVars
    /\ UNCHANGED appVars

\* axios rejects without a response: connection refused, DNS failure, timeout
AxiosRejectNetwork ==
    /\ pc = "await"
    /\ \E err \in NetworkErrors :
          /\ lastError' = err
          /\ failures' = Append(failures, err)
    /\ attempt' = attempt + 1
    /\ IF ShouldSleep(attempt + 1, maxRetries)
         THEN /\ sleeps' = Append(sleeps, BackoffDelay(initialDelay, attempt + 1))
              /\ afterResponse' = IF received # <<>> THEN afterResponse + 1
                                                     ELSE afterResponse
              /\ pc' = "sleep"
         ELSE /\ pc' = "loop"
              /\ UNCHANGED <<sleeps, afterResponse>>
    /\ UNCHANGED <<maxRetries, initialDelay, result, requests, received>>
    /\ UNCHANGED schemaVars
    /\ UNCHANGED probeVars
    /\ UNCHANGED genVars
    /\ UNCHANGED appVars

\* the timer of sleep(delay) fires
SleepDone ==
    /\ pc = "sleep"
    /\ pc' = "loop"
    /\ UNCHANGED <<maxRetries, initialDelay, attempt, lastError, result,
                   requests, sleeps, received, failures, afterResponse>>
    /\ UNCHANGED schemaVars
    /\ UNCHANGED probeVars
    /\ UNCHANGED genVars
    /\ UNCHANGED appVars

\* the loop condition fails: return the exhausted result (lastError.message
\* throws a TypeError when lastError is still null)
ReturnExhausted ==
    /\ pc = "loop"
    /\ ~LoopContinues(attempt, maxRetries)
    /\ IF lastError = NoError
         THEN pc' = "threw" /\ UNCHANGED result
         ELSE pc' = "done" /\ result' = ExhaustedResult(lastError)
    /\ UNCHANGED <<maxRetries, initialDelay, attempt, lastError,
                   requests, sleeps, received, failures, afterResponse>>
    /\ UNCHANGED schemaVars
    /\ UNCHANGED probeVars
    /\ UNCHANGED genVars
    /\ UNCHANGED appVars

NextFetch ==
    \/ IssueRequest
    \/ AxiosResolve
    \/ AxiosRejectResponse
    \/ AxiosRejectNetwork
    \/ SleepDone
    \/ ReturnExhausted

SpecFetch == InitFetch /\ [][NextFetch]_vars

\* every awaited promise settles (each attempt completes with a response, an
\* error or the timeout; each sleep completes) and the function's own steps
\* run: no step of the call stays enabled forever without being taken
SpecFetchFair == InitFetch /\ [][NextFetch]_vars /\ WF_vars(NextFetch)

----------------------------------------------------------------------------
\* Properties of fetchWithRetry

Returned == pc = "done"
NoResponseEver == received = <<>>

\* C1: once an attempt has received a response (any status, 4xx and 5xx
\* included) the call has returned the result for that response; no request
\* and no backoff sleep is started after it, whatever maxRetries is.
C1_ReturnsOnFirstResponse ==
    received # <<>> =>
        /\ Returned
        /\ Len(received) = 1
        /\ result.status = received[1]
        /\ afterResponse = 0
        /\ requests = Len(failures) + 1

\* a 5xx response arrives on the second attempt with retries still available
C1_Witness ==
    /\ Returned
    /\ received # <<>> /\ received[1] >= 500
    /\ Len(failures) = 1
    /\ maxRetries = MaxRetriesBound

\* C2: when every attempt fails without a response, exactly maxRetries+1
\* requests are made before the call returns (maxRetries >= 0), and never
\* more than that at any moment.
C2_ExactlyMaxRetriesPlusOneAttempts ==
    (maxRetries >= 0 /\ NoResponseEver) =>
        /\ requests <= maxRetries + 1
        /\ (pc \in {"done", "threw"} => requests = maxRetries + 1)

\* an all-failing call with two retries has returned
C2_Witness ==
    /\ Returned /\ NoResponseEver
    /\ maxRetries = 2 /\ requests = 3

\* C3: the sleep before the k-th retry lasts initialDelay * 2^(k-1); sleeps
\* happen only between a failed attempt and the next attempt, so an
\* all-failing run has exactly maxRetries sleeps (500 then 1000 for
\* maxRetries = 2, initialDelay = 500) and none after the last failure.
C3_BackoffSchedule ==
    /\ \A k \in 1 .. Len(sleeps) : sleeps[k] = initialDelay * 2^(k - 1)
    /\ Len(sleeps) <= Len(failures)
    /\ (pc = "sleep" => requests = Len(sleeps) /\ Len(failures) = Len(sleeps))
    /\ (pc = "await" \/ Returned => requests = Len(sleeps) + 1)
    /\ (Returned /\ NoResponseEver =>
            /\ Len(sleeps) = maxRetries
            /\ Len(failures) = maxRetries + 1)
    /\ (Returned /\ NoResponseEver /\ maxRetries = 2 /\ initialDelay = 500
            => sleeps = <<500, 1000>>)

\* the unreachable-host scenario: three failures, sleeps of 500 and 1000
C3_Witness ==
    /\ Returned /\ NoResponseEver
    /\ maxRetries = 2 /\ initialDelay = 500
    /\ Len(sleeps) = 2 /\ Len(failures) = 3

\* C4: every response received with a 4xx or 5xx status is returned with
\* success = false and with the received status (which is not 0).
C4_ErrorStatusIsNotSuccess ==
    (Returned /\ received # <<>> /\ received[1] >= 400) =>
        /\ result.success = FALSE
        /\ result.status = received[1]
        /\ result.status # 0

\* C5: the returned status is 0 exactly when no attempt received a response,
\* and then the result is {success:false, status:0, error, errorType} with
\* the message of the last failed attempt and its code, or NETWORK_ERROR
\* when that error has no code.
C5_StatusZeroIffNoResponse ==
    Returned =>
        /\ (result.status = 0 <=> NoResponseEver)
        /\ (NoResponseEver =>
              LET last == failures[Len(failures)] IN
              /\ result.success = FALSE
              /\ result.error = last.message
              /\ result.errorType =
                    (IF last.code = Absent THEN "NETWORK_ERROR" ELSE last.code)
              /\ result.statusText = Absent)

\* the last of several failures carries a code that differs from the first
C5_Witness ==
    /\ Returned /\ NoResponseEver
    /\ Len(failures) >= 2
    /\ failures[Len(failures)].code = "ECONNABORTED"
    /\ failures[1].code = Absent
    /\ result.errorType = "ECONNABORTED"

----------------------------------------------------------------------------
\* schema.js: findArrayPath and inferSchema applied to a decoded response

InitSchema ==
    /\ FetchIdle
    /\ MergeIdle
    /\ ProbeIdle
    /\ GenIdle
    /\ dataIn \in DataInputs
    /\ pathOut = NullKey
    /\ schemaOut = NullSchema
    /\ called = {}
    /\ AppIdle

FindArrayPathCall ==
    /\ "findArrayPath" \notin called
    /\ pathOut' = findArrayPath(dataIn)
    /\ called' = called \cup {"findArrayPath"}
    /\ UNCHANGED <<dataIn, schemaOut, samplesIn, fieldsOut>>
    /\ UNCHANGED fetchVars
    /\ UNCHANGED probeVars
    /\ UNCHANGED genVars
    /\ UNCHANGED appVars

InferSchemaCall ==
    /\ "inferSchema" \notin called
    /\ schemaOut' = inferSchema(dataIn)
    /\ called' = called \cup {"inferSchema"}
    /\ UNCHANGED <<dataIn, pathOut, samplesIn, fieldsOut>>
    /\ UNCHANGED fetchVars
    /\ UNCHANGED probeVars
    /\ UNCHANGED genVars
    /\ UNCHANGED appVars

NextSchema ==
    \/ FindArrayPathCall
    \/ InferSchemaCall

SpecSchema == InitSchema /\ [][NextSchema]_vars

\* schema.js: mergeFieldTypes applied to an array of samples

InitMerge ==
    /\ FetchIdle
    /\ SchemaIdle
    /\ ProbeIdle
    /\ GenIdle
    /\ samplesIn \in SampleInputs
    /\ fieldsOut = <<>>
    /\ AppIdle

MergeFieldTypesCall ==
    /\ "mergeFieldTypes" \notin called
    /\ fieldsOut' = mergeFieldTypes(samplesIn)
    /\ called' = called \cup {"mergeFieldTypes"}
    /\ UNCHANGED <<dataIn, pathOut, schemaOut, samplesIn>>
    /\ UNCHANGED fetchVars
    /\ UNCHANGED probeVars
    /\ UNCHANGED genVars
    /\ UNCHANGED appVars

NextMerge == MergeFieldTypesCall

SpecMerge == InitMerge /\ [][NextMerge]_vars

\* schema.js: detectPagination applied to a decoded response

\* the key names detectPagination looks for
MetaKeys == <<"page", "current_page", "currentPage",
              "per_page", "page_size", "perPage", "pageSize",
              "total", "total_count", "totalCount", "offset", "limit">>

\* the object holding exactly the given metadata keys
RECURSIVE MetaEntries(_, _)
MetaEntries(S, i) ==
    IF i > Len(MetaKeys) THEN <<>>
    ELSE (IF MetaKeys[i] \in S THEN <<Entry(MetaKeys[i], JNum(10))>> ELSE <<>>)
         \o MetaEntries(S, i + 1)

Container(S) == JObj(MetaEntries(S, 1))

\* containers with at most MaxMetaKeys of the looked-for keys
AllContainers ==
    { Container(S) : S \in { T \in SUBSET { MetaKeys[i] : i \in 1 .. Len(MetaKeys) } :
                                Cardinality(T) <= MaxMetaKeys } }

\* property values of a response with several candidate containers
CandidateValues ==
    { Container({"page", "total"}), Container({"currentPage", "pageSize"}),
      Container({"offset", "limit"}), Container({"page"}), Container({"total"}),
      Container({"page", "total", "offset", "limit"}),
      JArr(<<R1>>), JNull, JStr("ok") }

ContainerKeys == {"meta", "pagination", "data"}

PaginationInputs ==
    { JObj(<<Entry("meta", c)>>) : c \in AllContainers }
    \cup { JObj(<<Entry(k[1], v[1]), Entry(k[2], v[2])>>) :
             <<k, v>> \in { kk \in ContainerKeys \X ContainerKeys : kk[1] # kk[2] }
                           \X (CandidateValues \X CandidateValues) }
    \cup { JNull, JUndefined, JNum(70), JStr("abc"), JObj(<<>>) }

InitPagination ==
    /\ FetchIdle
    /\ MergeIdle
    /\ ProbeIdle
    /\ GenIdle
    /\ dataIn \in PaginationInputs
    /\ pathOut = NullKey
    /\ schemaOut = NullSchema
    /\ called = {}
    /\ AppIdle

DetectPaginationCall ==
    /\ "detectPagination" \notin called
    /\ pagOut' = detectPagination(dataIn)
    /\ called' = called \cup {"detectPagination"}
    /\ UNCHANGED <<dataIn, pathOut, schemaOut, samplesIn, fieldsOut, typeOut>>
    /\ UNCHANGED fetchVars
    /\ UNCHANGED genVars
    /\ UNCHANGED appVars

NextPagination == DetectPaginationCall

SpecPagination == InitPagination /\ [][NextPagination]_vars

\* schema.js: inferType applied to one JSON value

\* JSON values of every kind; the numbers cover whole and fractional values
\* of both signs
TypeInputs ==
    { JNull, JBool(TRUE), JBool(FALSE), JStr(""), JStr("abc"), JStr("12") }
    \cup { JNum(u) : u \in -MaxUnits .. MaxUnits }
    \cup AllElems \cup PropValues

InitType ==
    /\ FetchIdle
    /\ MergeIdle
    /\ ProbeIdle
    /\ GenIdle
    /\ dataIn \in TypeInputs
    /\ pathOut = NullKey
    /\ schemaOut = NullSchema
    /\ called = {}
    /\ AppIdle

InferTypeCall ==
    /\ "inferType" \notin called
    /\ typeOut' = inferType(dataIn)
    /\ called' = called \cup {"inferType"}
    /\ UNCHANGED <<dataIn, pathOut, schemaOut, samplesIn, fieldsOut, pagOut>>
    /\ UNCHANGED fetchVars
    /\ UNCHANGED genVars
    /\ UNCHANGED appVars

NextType == InferTypeCall

SpecType == InitType /\ [][NextType]_vars

\* routes: one request handled by one of the three handlers

InitRoute ==
    /\ FetchIdle
    /\ SchemaIdle
    /\ MergeIdle
    /\ ProbeIdle
    /\ GenIdle
    /\ SaveIdle
    /\ FormIdle
    /\ req \in TestRequests \cup SampleRequests \cup GenerateRequests
    /\ dbMode \in DbModes
    /\ store \in StoredBefore
    /\ res = NoRes
    /\ saveLog = <<>>

Respond(handled) ==
    /\ res' = handled.res
    /\ store' = handled.db
    /\ saveLog' = handled.saves
    /\ UNCHANGED <<req, dbMode>>
    /\ UNCHANGED saveVars
    /\ UNCHANGED formVars
    /\ UNCHANGED fetchVars
    /\ UNCHANGED schemaVars
    /\ UNCHANGED probeVars
    /\ UNCHANGED genVars

HandleTest ==
    /\ req.route = "test"
    /\ res = NoRes
    /\ Respond(TestRoute(req.url, Fetched(req.served), dbMode, store))

HandleTestSample ==
    /\ req.route = "test-sample"
    /\ res = NoRes
    /\ Respond(TestSampleRoute(req.hasSample, req.sample, store))

HandleGenerate ==
    /\ req.route = "generate"
    /\ res = NoRes
    /\ Respond(GenerateRoute(req.hasSchema, req.schema, req.format, dbMode, store))

NextRoute ==
    \/ HandleTest
    \/ HandleTestSample
    \/ HandleGenerate

SpecRoute == InitRoute /\ [][NextRoute]_vars

\* TestForm: user actions and the settling of its fetch() calls

InitForm ==
    /\ FetchIdle
    /\ SchemaIdle
    /\ MergeIdle
    /\ ProbeIdle
    /\ GenIdle
    /\ RouteIdle
    /\ store = EmptyDb
    /\ SaveIdle
    /\ form = InitialForm
    /\ inflight = {}
    /\ sent = <<>>

FormStep ==
    /\ UNCHANGED <<store, routeVars, saveVars>>
    /\ UNCHANGED fetchVars
    /\ UNCHANGED schemaVars
    /\ UNCHANGED probeVars
    /\ UNCHANGED genVars

\* onChange of the URL input (disabled while loading)
TypeUrl ==
    /\ ~form.loading
    /\ \E u \in FormUrls : form' = [form EXCEPT !.url = u]
    /\ UNCHANGED <<inflight, sent>>
    /\ FormStep

\* onChange of the Authorization input (disabled while loading)
TypeAuthorization ==
    /\ ~form.loading
    /\ \E a \in FormAuthorizations : form' = [form EXCEPT !.authorization = a]
    /\ UNCHANGED <<inflight, sent>>
    /\ FormStep

\* onChange of the sample textarea (shown in paste mode, disabled while loading)
TypeSample ==
    /\ form.showPasteSample
    /\ ~form.loading
    /\ \E t \in FormSamples : form' = [form EXCEPT !.sampleJSON = t]
    /\ UNCHANGED <<inflight, sent>>
    /\ FormStep

\* handleTogglePasteSample
TogglePasteSample ==
    /\ form' = [form EXCEPT !.showPasteSample = ~form.showPasteSample,
                            !.error = IF ~form.showPasteSample THEN NullData ELSE @]
    /\ UNCHANGED <<inflight, sent>>
    /\ FormStep

\* handleTest up to its await
handleTest ==
    /\ Len(sent) < MaxSent
    /\ form' = Started(form)
    /\ sent' = Append(sent, Sent("/api/test", form.url, form.authorization # "", "", 0))
    /\ inflight' = inflight \cup {Len(sent) + 1}
    /\ FormStep

\* the Test Connection button: disabled={!url || loading}
ClickTest ==
    /\ form.url # ""
    /\ ~form.loading
    /\ handleTest

\* the Retry button of the error card: handleRetry calls handleTest
ClickRetry ==
    /\ ~form.error.isNull
    /\ handleTest

\* the Test Sample button: disabled={!sampleJSON || loading}; handleTestSample
\* up to its await
ClickTestSample ==
    /\ form.showPasteSample
    /\ form.sampleJSON # ""
    /\ ~form.loading
    /\ Len(sent) < MaxSent
    /\ form' = Started(form)
    /\ sent' = Append(sent, Sent("/api/test-sample", "", FALSE, form.sampleJSON, 0))
    /\ inflight' = inflight \cup {Len(sent) + 1}
    /\ FormStep

\* the Generate button of the results card: disabled={generating};
\* handleGenerateToolJet up to its await
ClickGenerate ==
    /\ ~form.result.isNull
    /\ form.result.ok
    /\ ~form.generating
    /\ Len(sent) < MaxSent
    /\ form' = [form EXCEPT !.generating = TRUE]
    /\ sent' = Append(sent, Sent("/api/generate", form.url, FALSE, "", form.result.of))
    /\ inflight' = inflight \cup {Len(sent) + 1}
    /\ FormStep

\* handleTest after its await
TestSettles ==
    \E id \in inflight :
        /\ sent[id].path = "/api/test"
        /\ \E outcome \in Outcomes(sent[id]) :
              /\ form' = Settled(form, id, outcome)
              /\ sent' = [sent EXCEPT ![id].outcome = outcome]
        /\ inflight' = inflight \ {id}
        /\ FormStep

\* handleTestSample after its await: a success also leaves paste mode
TestSampleSettles ==
    \E id \in inflight :
        /\ sent[id].path = "/api/test-sample"
        /\ \E outcome \in Outcomes(sent[id]) :
              /\ form' = IF outcome = "ok"
                           THEN [Settled(form, id, outcome) EXCEPT
                                    !.showPasteSample = FALSE, !.sampleJSON = ""]
                           ELSE Settled(form, id, outcome)
              /\ sent' = [sent EXCEPT ![id].outcome = outcome]
        /\ inflight' = inflight \ {id}
        /\ FormStep

\* handleGenerateToolJet after its await: setGeneratedToolJet(data) for every
\* body received; finally setGenerating(false)
GenerateSettles ==
    \E id \in inflight :
        /\ sent[id].path = "/api/generate"
        /\ \E outcome \in Outcomes(sent[id]) :
              /\ form' = [form EXCEPT
                            !.generating = FALSE,
                            !.generatedToolJet =
                                IF outcome = "ok" THEN Data(FALSE, id, "wrapper")
                                ELSE IF outcome = "notok"
                                  THEN Data(FALSE, id, "failure")
                                ELSE @]
              /\ sent' = [sent EXCEPT ![id].outcome = outcome]
        /\ inflight' = inflight \ {id}
        /\ FormStep

NextForm ==
    \/ TypeUrl
    \/ TypeAuthorization
    \/ TypeSample
    \/ TogglePasteSample
    \/ ClickTest
    \/ ClickRetry
    \/ ClickTestSample
    \/ ClickGenerate
    \/ TestSettles
    \/ TestSampleSettles
    \/ GenerateSettles

SpecForm == InitForm /\ [][NextForm]_vars

\* saveApiTest: calls whose storage operations interleave (database
\* connected, no storage errors)

SaveUrls == {"http://api.example.com/orders", "http://localhost:3001/html"}

SaveInputs == { TestData(u, s, IF s THEN 200 ELSE 401) : u \in SaveUrls, s \in BOOLEAN }

Saver(position, testData, existingTest) ==
    [pc |-> position, testData |-> testData, existingTest |-> existingTest]

\* the collection before the calls: empty, or holding the document of one
\* completed call
SavedBefore ==
    { EmptyDb,
      saveApiTest(TestData("http://api.example.com/orders", TRUE, 200),
                  "connected", EmptyDb).db }

CountFor(docs, url) == Cardinality({ i \in 1 .. Len(docs) : docs[i].url = url })

InitSave ==
    /\ FetchIdle
    /\ SchemaIdle
    /\ MergeIdle
    /\ ProbeIdle
    /\ GenIdle
    /\ FormIdle
    /\ req = NoReq
    /\ dbMode = "connected"
    /\ res = NoRes
    /\ saveLog = <<>>
    /\ store \in SavedBefore
    /\ \E n \in 1 .. MaxSavers :
          savers \in [1 .. n -> { Saver("start", t, NullDoc) : t \in SaveInputs }]
    /\ completed = [u \in SaveUrls |-> CountFor(store.apiTests, u)]

SaveStep ==
    /\ UNCHANGED routeVars
    /\ UNCHANGED formVars
    /\ UNCHANGED fetchVars
    /\ UNCHANGED schemaVars
    /\ UNCHANGED probeVars
    /\ UNCHANGED genVars

\* await ApiTest.findOne(...): the call holds its own copy of the document
SaveFind ==
    \E p \in DOMAIN savers :
        /\ savers[p].pc = "start"
        /\ IsConnected(dbMode)
        /\ savers' = [savers EXCEPT
                        ![p] = Saver("found", savers[p].testData,
                                     FindOne(store.apiTests, savers[p].testData.url))]
        /\ UNCHANGED <<store, completed>>
        /\ SaveStep

\* await existingTest.incrementTestCount() or await apiTest.save(), then return
SaveWrite ==
    \E p \in DOMAIN savers :
        /\ savers[p].pc = "found"
        /\ LET testData == savers[p].testData
               existingTest == savers[p].existingTest
               doc == IF existingTest # NullDoc
                        THEN Updated(existingTest, testData, Now(store))
                        ELSE Created(store.apiTests, testData, Now(store))
           IN /\ store' = [store EXCEPT !.apiTests = SaveDoc(store.apiTests, doc)]
              /\ completed' = [completed EXCEPT ![testData.url] = @ + 1]
        /\ savers' = [savers EXCEPT ![p].pc = "done"]
        /\ SaveStep

NextSave ==
    \/ SaveFind
    \/ SaveWrite

SpecSave == InitSave /\ [][NextSave]_vars

\* generator.js: the exported functions applied to one schema

InitGen ==
    /\ FetchIdle
    /\ SchemaIdle
    /\ MergeIdle
    /\ ProbeIdle
    /\ genIn \in GenInputs
    /\ maskOut = <<>>
    /\ maskAgain = <<>>
    /\ datasourceOut = NoDatasource
    /\ wrapperOut = NoWrapper
    /\ AppIdle

MaskCall ==
    /\ "maskSensitiveHeaders" \notin called
    /\ maskOut' = maskSensitiveHeaders(genIn.headers)
    /\ called' = called \cup {"maskSensitiveHeaders"}
    /\ UNCHANGED <<genIn, maskAgain, datasourceOut, wrapperOut>>
    /\ UNCHANGED <<dataIn, pathOut, schemaOut, samplesIn, fieldsOut>>
    /\ UNCHANGED probeVars
    /\ UNCHANGED fetchVars
    /\ UNCHANGED appVars

\* the masked map is masked once more
MaskAgainCall ==
    /\ "maskSensitiveHeaders" \in called
    /\ "maskSensitiveHeaders again" \notin called
    /\ maskAgain' = maskSensitiveHeaders(HeadersObject(maskOut))
    /\ called' = called \cup {"maskSensitiveHeaders again"}
    /\ UNCHANGED <<genIn, maskOut, datasourceOut, wrapperOut>>
    /\ UNCHANGED <<dataIn, pathOut, schemaOut, samplesIn, fieldsOut>>
    /\ UNCHANGED probeVars
    /\ UNCHANGED fetchVars
    /\ UNCHANGED appVars

DatasourceCall ==
    /\ "generateDatasourceJSON" \notin called
    /\ datasourceOut' = generateDatasourceJSON(genIn, NoOpts)
    /\ called' = called \cup {"generateDatasourceJSON"}
    /\ UNCHANGED <<genIn, maskOut, maskAgain, wrapperOut>>
    /\ UNCHANGED <<dataIn, pathOut, schemaOut, samplesIn, fieldsOut>>
    /\ UNCHANGED probeVars
    /\ UNCHANGED fetchVars
    /\ UNCHANGED appVars

WrapperCall ==
    /\ "generateImportWrapper" \notin called
    /\ wrapperOut' = generateImportWrapper(genIn, NoOpts)
    /\ called' = called \cup {"generateImportWrapper"}
    /\ UNCHANGED <<genIn, maskOut, maskAgain, datasourceOut>>
    /\ UNCHANGED <<dataIn, pathOut, schemaOut, samplesIn, fieldsOut>>
    /\ UNCHANGED probeVars
    /\ UNCHANGED fetchVars
    /\ UNCHANGED appVars

NextGen ==
    \/ MaskCall
    \/ MaskAgainCall
    \/ DatasourceCall
    \/ WrapperCall

SpecGen == InitGen /\ [][NextGen]_vars

----------------------------------------------------------------------------
\* Properties of schema.js

\* property i of v holds a non-empty array
HoldsRecords(v, i) == v.kids[i].v.tag = "array" /\ v.kids[i].v.kids # <<>>

HasRecordsProperty(v) ==
    v.tag = "object" /\ \E i \in 1 .. Len(v.kids) : HoldsRecords(v, i)

\* position of the first property of v that holds a non-empty array
FirstRecordsProperty(v) ==
    CHOOSE i \in 1 .. Len(v.kids) :
        HoldsRecords(v, i) /\ \A j \in 1 .. i - 1 : ~HoldsRecords(v, j)

\* C6: findArrayPath returns the name of the first property, in iteration
\* order, whose value is a non-empty array (empty arrays and non-arrays are
\* skipped); it returns null for a top-level array, a non-object, and an
\* object without such a property.
C6_FindArrayPathFirstNonEmpty ==
    "findArrayPath" \in called =>
        IF HasRecordsProperty(dataIn)
          THEN pathOut = StrKey(dataIn.kids[FirstRecordsProperty(dataIn)].k)
          ELSE pathOut = NullKey

\* an empty array is skipped in favour of a later non-empty one
C6_Witness ==
    /\ "findArrayPath" \in called
    /\ dataIn.tag = "object" /\ Len(dataIn.kids) = 2
    /\ dataIn.kids[1].v = JArr(<<>>)
    /\ HoldsRecords(dataIn, 2)
    /\ pathOut = StrKey(dataIn.kids[2].k)

\* C7: inferSchema returns a schema exactly when data is a non-empty
\* top-level array (samplePath "$") or an object with a property holding a
\* non-empty array (samplePath "$.<key>" of the first such property);
\* otherwise it returns null.
C7_SchemaIffRecordArray ==
    "inferSchema" \in called =>
        LET top == dataIn.tag = "array" /\ dataIn.kids # <<>> IN
        /\ (~schemaOut.isNull <=> (top \/ HasRecordsProperty(dataIn)))
        /\ (top => schemaOut.samplePath = "$")
        /\ (HasRecordsProperty(dataIn) =>
              schemaOut.samplePath =
                "$." \o dataIn.kids[FirstRecordsProperty(dataIn)].k)

\* every property of every sample, in scan order
RECURSIVE ScanOrder(_, _)
ScanOrder(elems, i) ==
    IF i > Len(elems) THEN <<>>
    ELSE elems[i].v.kids \o ScanOrder(elems, i + 1)

Scanned == ScanOrder(samplesIn.kids, 1)

\* position in the scan at which a name is first seen
FirstSeen(name) ==
    CHOOSE p \in 1 .. Len(Scanned) :
        Scanned[p].k = name /\ \A q \in 1 .. p - 1 : Scanned[q].k # name

\* C8: the merged field list has each field name exactly once, in the order
\* in which the names are first seen scanning the samples in order and each
\* sample's properties in order; the carried sample value is the value from
\* the first sample in which the field appears.
C8_UniqueFirstSeenOrder ==
    "mergeFieldTypes" \in called =>
        /\ \A i, j \in 1 .. Len(fieldsOut) :
              i # j => fieldsOut[i].name # fieldsOut[j].name
        /\ { fieldsOut[i].name : i \in 1 .. Len(fieldsOut) } =
           { Scanned[p].k : p \in 1 .. Len(Scanned) }
        /\ \A i, j \in 1 .. Len(fieldsOut) :
              i < j => FirstSeen(fieldsOut[i].name) < FirstSeen(fieldsOut[j].name)
        /\ \A i \in 1 .. Len(fieldsOut) :
              fieldsOut[i].sample = Scanned[FirstSeen(fieldsOut[i].name)].v

\* "extra" appears only in the second sample, "id" in both with other values
C8_Witness ==
    /\ "mergeFieldTypes" \in called
    /\ Len(samplesIn.kids) = 2
    /\ samplesIn.kids[1].v = R2 /\ samplesIn.kids[2].v = R3
    /\ Len(fieldsOut) = 3
    /\ fieldsOut[2].name = "id" /\ fieldsOut[2].sample = JStr("x")
    /\ fieldsOut[3].name = "extra"

\* the tags in lexicographic order
TagOrder == <<"array", "boolean", "integer", "null", "number", "object", "string">>

\* the members of S in lexicographic order, separated by '|'
RECURSIVE UnionOfTags(_, _)
UnionOfTags(S, i) ==
    IF i > Len(TagOrder) THEN ""
    ELSE IF TagOrder[i] \in S
      THEN TagOrder[i]
           \o (IF \E j \in i + 1 .. Len(TagOrder) : TagOrder[j] \in S
                 THEN "|" ELSE "")
           \o UnionOfTags(S, i + 1)
    ELSE UnionOfTags(S, i + 1)

\* the tags observed for a field in the samples that mention it
ObservedTags(name) ==
    { inferType(Scanned[p].v) :
        p \in { q \in 1 .. Len(Scanned) : Scanned[q].k = name } }

\* the samples in another order
Reordered(perm) ==
    JArr([i \in 1 .. Len(samplesIn.kids) |-> samplesIn.kids[perm[i]].v])

\* C9: the merged type of a field is the single tag when the samples that
\* mention it agree, else the distinct tags sorted lexicographically and
\* joined with '|'; it has no repeated tag and does not depend on the order
\* in which the samples are scanned.
C9_MergedTypeIsSortedUnion ==
    "mergeFieldTypes" \in called =>
        /\ \A i \in 1 .. Len(fieldsOut) :
              fieldsOut[i].type = UnionOfTags(ObservedTags(fieldsOut[i].name), 1)
        /\ \A perm \in Permutations(1 .. Len(samplesIn.kids)) :
              LET other == mergeFieldTypes(Reordered(perm)) IN
              /\ Len(other) = Len(fieldsOut)
              /\ \A i \in 1 .. Len(fieldsOut) :
                    \E j \in 1 .. Len(other) :
                        /\ other[j].name = fieldsOut[i].name
                        /\ other[j].type = fieldsOut[i].type

\* "id" is seen as string, then number, then integer
C9_Witness ==
    /\ "mergeFieldTypes" \in called
    /\ Len(samplesIn.kids) = 3
    /\ samplesIn.kids[1].v = R2 /\ samplesIn.kids[2].v = R3
    /\ samplesIn.kids[3].v = R1
    /\ \E i \in 1 .. Len(fieldsOut) :
          fieldsOut[i].name = "id" /\ fieldsOut[i].type = "integer|number|string"

\* the record array inferSchema locates in data
RecordArray(d) ==
    IF d.tag = "array" THEN d ELSE d.kids[FirstRecordsProperty(d)].v

\* data with the elements of its record array from index 5 on replaced
WithTail(d, tail) ==
    LET arr == JV("array", 0, "",
                  SubSeq(RecordArray(d).kids, 1, 5) \o IndexEntries(tail, 1))
    IN IF d.tag = "array" THEN arr
       ELSE [d EXCEPT !.kids[FirstRecordsProperty(d)].v = arr]

TailChoices == {<<>>} \cup { <<e>> : e \in AllElems }

\* C10: the fields come from the first min(5, length) elements of the record
\* array only: inputs whose record arrays agree on their first five elements
\* have the same fields, and a name that occurs only at index 5 or later is
\* not a field.
C10_OnlyFirstFiveSampled ==
    ("inferSchema" \in called /\ ~schemaOut.isNull
        /\ Len(RecordArray(dataIn).kids) >= 5) =>
        /\ \A tail \in TailChoices :
              inferSchema(WithTail(dataIn, tail)).fields = schemaOut.fields
        /\ \A i \in 1 .. Len(schemaOut.fields) :
              \E p \in 1 .. 5 :
                  HasKey(RecordArray(dataIn).kids[p].v, schemaOut.fields[i].name)

\* the sixth record is the only one with "extra" and with a fractional id
C10_Witness ==
    /\ "inferSchema" \in called /\ ~schemaOut.isNull
    /\ dataIn.tag = "array" /\ Len(dataIn.kids) = 6
    /\ \A p \in 1 .. 5 : dataIn.kids[p].v = R1
    /\ dataIn.kids[6].v = R3
    /\ Len(schemaOut.fields) = 2
    /\ schemaOut.fields[1].type = "integer"

\* the samples that are non-array objects, in order
RECURSIVE ObjectSamples(_, _)
ObjectSamples(elems, i) ==
    IF i > Len(elems) THEN <<>>
    ELSE (IF elems[i].v.tag = "object" THEN <<elems[i].v>> ELSE <<>>)
         \o ObjectSamples(elems, i + 1)

\* C11: a sampled record that is not a non-array object (a scalar, null or
\* a nested array) contributes no fields: the merged list is the one the
\* non-array object samples alone produce.
C11_NonObjectsContributeNothing ==
    "mergeFieldTypes" \in called =>
        /\ { fieldsOut[i].name : i \in 1 .. Len(fieldsOut) } =
           { e.k : e \in UNION { { s.kids[p] : p \in 1 .. Len(s.kids) } :
                       s \in { samplesIn.kids[q].v :
                                 q \in { r \in 1 .. Len(samplesIn.kids) :
                                           samplesIn.kids[r].v.tag = "object" } } } }
        /\ fieldsOut = mergeFieldTypes(JArr(ObjectSamples(samplesIn.kids, 1)))

\* the seven type tags
TypeTags == {"null", "boolean", "integer", "number", "string", "object", "array"}

\* C12: inferType returns exactly one of the seven tags for every JSON
\* value: null for null, array for an array, object for a non-array
\* object, integer for a number without fractional part, number for a
\* number with one, string for a string, boolean for a boolean.
C12_InferTypeTotal ==
    "inferType" \in called =>
        /\ typeOut \in TypeTags
        /\ (typeOut = "null" <=> dataIn = JNull)
        /\ (typeOut = "array" <=> dataIn.tag = "array")
        /\ (typeOut = "object" <=> dataIn.tag = "object")
        /\ (typeOut = "string" <=> dataIn.tag = "string")
        /\ (typeOut = "boolean" <=> dataIn.tag = "boolean")
        /\ (typeOut = "integer" <=>
              dataIn.tag = "number" /\ \E w \in -MaxUnits .. MaxUnits : dataIn.n = w * Scale)
        /\ (typeOut = "number" <=>
              dataIn.tag = "number" /\ \A w \in -MaxUnits .. MaxUnits : dataIn.n # w * Scale)

\* -1.5 is a number, not an integer
C12_Witness ==
    /\ "inferType" \in called
    /\ dataIn = JNum(-15)
    /\ typeOut = "number"

\* Properties of detectPagination

KeysOf(v) == { v.kids[i].k : i \in 1 .. Len(v.kids) }

PageKeyNames == {"page", "current_page", "currentPage"}
PerPageKeyNames == {"per_page", "page_size", "perPage", "pageSize"}
TotalKeyNames == {"total", "total_count", "totalCount"}

PageSignature(v) ==
    /\ KeysOf(v) \cap PageKeyNames # {}
    /\ KeysOf(v) \cap (PerPageKeyNames \cup TotalKeyNames) # {}

OffsetSignature(v) == {"offset", "limit"} \subseteq KeysOf(v)

\* v is a non-array object that satisfies one of the signatures
Satisfies(v) == v.tag = "object" /\ (PageSignature(v) \/ OffsetSignature(v))

HasMatch(d) == \E i \in 1 .. Len(d.kids) : Satisfies(d.kids[i].v)

\* position of the first property of d that satisfies a signature
FirstMatch(d) ==
    CHOOSE i \in 1 .. Len(d.kids) :
        Satisfies(d.kids[i].v) /\ \A j \in 1 .. i - 1 : ~Satisfies(d.kids[j].v)

\* C13: within a container the page-based signature is tested before the
\* offset-based one, so a container satisfying both yields type "page"; the
\* result carries the canonical parameter names whatever synonyms were
\* found, and is null when no property satisfies a signature.
C13_PageBeforeOffsetCanonical ==
    "detectPagination" \in called =>
        IF HasMatch(dataIn)
          THEN LET v == dataIn.kids[FirstMatch(dataIn)].v IN
               /\ ~pagOut.isNull
               /\ pagOut.limitParam = "limit"
               /\ (PageSignature(v) =>
                     /\ pagOut.type = "page"
                     /\ pagOut.pageParam = "page"
                     /\ pagOut.offsetParam = Absent)
               /\ (~PageSignature(v) =>
                     /\ pagOut.type = "offset"
                     /\ pagOut.offsetParam = "offset"
                     /\ pagOut.pageParam = Absent)
          ELSE pagOut.isNull

\* a container found through synonyms that satisfies both signatures
C13_Witness ==
    /\ "detectPagination" \in called
    /\ dataIn = JObj(<<Entry("meta",
                  Container({"currentPage", "totalCount", "offset", "limit"}))>>)
    /\ pagOut.type = "page"
    /\ pagOut.pageParam = "page"

\* the metaPaths values a result carries
PathsOf(p) ==
    { p.metaPaths.currentPage, p.metaPaths.perPage, p.metaPaths.offset,
      p.metaPaths.limit, p.metaPaths.total } \ {Absent}

\* C14: every metaPaths value of a result is "<containerKey>.<k>" with k a
\* key that is present in the matched container.
C14_MetaPathsNameFoundKeys ==
    ("detectPagination" \in called /\ ~pagOut.isNull) =>
        LET e == dataIn.kids[FirstMatch(dataIn)] IN
        \A path \in PathsOf(pagOut) :
            \E k \in KeysOf(e.v) : path = e.k \o "." \o k

\* C15: the result is the one of the first property, in iteration order,
\* that satisfies a signature by itself; every metaPaths value refers to
\* that container, later containers are not consulted and signals of
\* different containers are not combined.
C15_FirstContainerWins ==
    "detectPagination" \in called =>
        IF HasMatch(dataIn)
          THEN LET e == dataIn.kids[FirstMatch(dataIn)] IN
               /\ pagOut = detectPagination(JObj(<<e>>))
               /\ ~pagOut.isNull
               /\ \A path \in PathsOf(pagOut) :
                     \E i \in 1 .. Len(MetaKeys) : path = e.k \o "." \o MetaKeys[i]
          ELSE pagOut.isNull

\* an offset container comes before a page container
C15_Witness ==
    /\ "detectPagination" \in called
    /\ Len(dataIn.kids) = 2
    /\ dataIn.kids[1] = Entry("pagination", Container({"offset", "limit"}))
    /\ dataIn.kids[2] = Entry("meta", Container({"page", "total"}))
    /\ pagOut.type = "offset"
    /\ pagOut.metaPaths.offset = "pagination.offset"

\* C16: inferSchema never reports pagination for a top-level array, even
\* when the elements of the array match a pagination signature.
C16_NoPaginationForTopLevelArray ==
    ("inferSchema" \in called /\ dataIn.tag = "array" /\ ~schemaOut.isNull) =>
        schemaOut.pagination.isNull

\* the second element of the array satisfies the offset-based signature
C16_Witness ==
    /\ "inferSchema" \in called
    /\ dataIn = JArr(<<R1, OffsetMeta>>)
    /\ HasMatch(dataIn)
    /\ ~schemaOut.isNull
    /\ schemaOut.samplePath = "$"
    /\ schemaOut.pagination.isNull

----------------------------------------------------------------------------
\* Properties of generator.js

\* the lower-cased name contains a denylist entry at some position
NameIsSensitive(name) ==
    \E i \in 1 .. Len(SENSITIVE_HEADERS) :
        \E pos \in 1 .. Len(name) :
            /\ pos + Len(SENSITIVE_HEADERS[i]) - 1 <= Len(name)
            /\ \A j \in 1 .. Len(SENSITIVE_HEADERS[i]) :
                  LowerChar(name[pos + j - 1]) = SENSITIVE_HEADERS[i][j]

\* the header entries a schema carries
GivenHeaders == genIn.headers.entries

\* the masked form of the given headers, stated entry by entry
IsMaskedFormOf(out, entries) ==
    /\ Len(out) = Len(entries)
    /\ \A i \in 1 .. Len(entries) :
          /\ out[i].k = entries[i].k
          /\ out[i].v = IF NameIsSensitive(entries[i].k) THEN "<masked>"
                        ELSE entries[i].v

\* the schema with the value of its i-th header replaced
WithHeaderValue(i, value) ==
    [genIn EXCEPT !.headers.entries[i].v = value]

OtherValues == HeaderValues \cup {"another secret"}

C18_MaskIdempotent ==
    "maskSensitiveHeaders again" \in called => maskAgain = maskOut

\* a sensitive and a non-sensitive header have been masked twice
C18_Witness ==
    /\ "maskSensitiveHeaders again" \in called
    /\ Len(GivenHeaders) = 2
    /\ GivenHeaders[1] = [k |-> HeaderNames[2], v |-> "Bearer xyz"]
    /\ GivenHeaders[2].v = "application/json"
    /\ ~NameIsSensitive(GivenHeaders[2].k)
    /\ maskAgain[1].v = "<masked>"
    /\ maskAgain[2].v = "application/json"

\* the fields and the samplePath generateImportWrapper works with
GivenFields == IF genIn.fieldsGiven THEN genIn.fields ELSE <<>>
GivenSamplePath == IF genIn.samplePathGiven THEN Str(genIn.samplePath) ELSE "$"

\* C19: generateImportWrapper produces one table column per schema field,
\* in order: column i is {name, key: the field's name, type:
\* mapFieldType(type), selector: samplePath + "[]." + name}, and
\* metadata.fieldCount is the number of columns (samplePath is "$" when
\* absent).
C19_OneColumnPerField ==
    "generateImportWrapper" \in called =>
        LET columns == wrapperOut.components.table.columns IN
        /\ Len(columns) = Len(GivenFields)
        /\ wrapperOut.metadata.fieldCount = Len(columns)
        /\ \A i \in 1 .. Len(GivenFields) :
              /\ columns[i].name = GivenFields[i].name
              /\ columns[i].key = GivenFields[i].name
              /\ columns[i].type = mapFieldType(GivenFields[i].type)
              /\ columns[i].selector =
                    GivenSamplePath \o "[]." \o GivenFields[i].name

\* three fields under $.orders, the first with a union type
C19_Witness ==
    /\ "generateImportWrapper" \in called
    /\ genIn.samplePathGiven /\ Str(genIn.samplePath) = "$.orders"
    /\ Len(GivenFields) = 3
    /\ wrapperOut.components.table.columns[1] =
          [name |-> "id", key |-> "id", type |-> "text",
           selector |-> "$.orders[].id"]
    /\ wrapperOut.components.table.columns[3].type = "boolean"
    /\ wrapperOut.metadata.fieldCount = 3

\* C20: components.pagination is present exactly when schema.pagination is
\* non-null, and metadata.hasPagination says so; the component carries the
\* schema pagination's type, and its pageParam and limitParam, or "page" and
\* "limit" where the schema supplies none.
C20_PaginationComponentIffPresent ==
    "generateImportWrapper" \in called =>
        LET comp == wrapperOut.components.pagination IN
        /\ (comp.present <=> genIn.pagination.kind = "object")
        /\ wrapperOut.metadata.hasPagination = comp.present
        /\ (comp.present =>
              /\ comp.type = genIn.pagination.type
              /\ comp.pageParam = (IF genIn.pagination.pageParam = Absent
                                     THEN "page" ELSE genIn.pagination.pageParam)
              /\ comp.limitParam = (IF genIn.pagination.limitParam = Absent
                                      THEN "limit" ELSE genIn.pagination.limitParam))

\* a pagination that names its own parameters
C20_Witness ==
    /\ "generateImportWrapper" \in called
    /\ genIn.pagination.kind = "object"
    /\ genIn.pagination.pageParam = "p"
    /\ wrapperOut.components.pagination.present
    /\ wrapperOut.components.pagination.type = "cursor"
    /\ wrapperOut.components.pagination.pageParam = "p"
    /\ wrapperOut.components.pagination.limitParam = "size"
    /\ wrapperOut.metadata.hasPagination
----------------------------------------------------------------------------
\* Properties of mapFieldType

HasBar(type) == \E i \in 1 .. Len(type) : type[i] = "|"

\* C21: a column's type is "number" for the field types integer and number,
\* "text" for string, object, array and null, and "text" for every field
\* type that contains '|', whatever its constituents (integer|number and
\* boolean|number|string included).
C21_MapFieldTypeTable ==
    "generateImportWrapper" \in called =>
        LET columns == wrapperOut.components.table.columns IN
        \A i \in 1 .. Len(GivenFields) :
            LET t == GivenFields[i].type
                ui == columns[i].type
            IN /\ (HasBar(t) => ui = "text")
               /\ (t \in {Chars_integer, Chars_number} => ui = "number")
               /\ (t \in {Chars_string, Chars_object, Chars_array, Chars_null}
                     => ui = "text")

\* a schema with a boolean|number|string column and an integer|number column
C21_Witness ==
    /\ "generateImportWrapper" \in called
    /\ Len(GivenFields) = 3
    /\ Str(GivenFields[1].type) = "boolean|number|string"
    /\ Str(GivenFields[2].type) = "integer|number"
    /\ wrapperOut.components.table.columns[1].type = "text"
    /\ wrapperOut.components.table.columns[2].type = "text"
    /\ wrapperOut.components.table.columns[3].type = "boolean"
----------------------------------------------------------------------------
\* Properties of the routes

Responded == res # NoRes

\* the request made /test receive a 2xx response with this body
Received2xx ==
    /\ req.route = "test"
    /\ IsUrl(req.url)
    /\ req.served.kind = "response"
    /\ req.served.resp.status >= 200
    /\ req.served.resp.status < 300

\* the request brought /test-sample a pasted sample
Pasted ==
    /\ req.route = "test-sample"
    /\ req.hasSample
    /\ Strip(req.sample) # <<>>

ReportsParseFailure ==
    /\ res.code = 200
    /\ res.hasOk /\ ~res.ok
    /\ \/ res.message = "Non-JSON response received" /\ res.hints = "The API returned non-JSON data. Try pasting a sample JSON response manually to continue."
       \/ res.message = "Invalid JSON: Could not parse the sample data" /\ res.hints = "Please ensure the pasted data is valid JSON format."

ReportsInferenceFailure ==
    res.message \in {"Could not infer schema from response", "Could not infer schema from sample"}

\* C22: a 2xx response body or a pasted sample that is not valid JSON is
\* answered with the non-JSON / invalid-JSON outcome (ok:false, the parse
\* message and its hint), and "could not infer schema" is answered only for
\* input that is valid JSON.
C22_ParseFailureIsNotInferenceFailure ==
    Responded =>
        /\ (Received2xx /\ req.served.body \in InvalidTexts) => ReportsParseFailure
        /\ (Pasted /\ req.sample \in InvalidTexts) => ReportsParseFailure
        /\ ReportsInferenceFailure =>
              \/ Received2xx /\ req.served.body \in ValidTexts
              \/ Pasted /\ req.sample \in ValidTexts

\* the response of the handler when the database is disconnected
ResponseWithoutDb ==
    IF req.route = "test"
      THEN TestRoute(req.url, Fetched(req.served), "disconnected", EmptyDb).res
    ELSE IF req.route = "test-sample"
      THEN TestSampleRoute(req.hasSample, req.sample, EmptyDb).res
    ELSE GenerateRoute(req.hasSchema, req.schema, req.format, "disconnected",
                       EmptyDb).res

\* the save call meets a disconnected database or a rejected operation
SaveFails(fn) ==
    \/ dbMode = "disconnected"
    \/ dbMode = "failSave"
    \/ dbMode = "failFind" /\ fn = "saveApiTest"

----------------------------------------------------------------------------
\* Properties of the TestForm component

TestPaths == {"/api/test", "/api/test-sample"}

\* a Test Connection or Test Sample request has been started and has not
\* completed
TestInFlight == \E id \in inflight : sent[id].path \in TestPaths

\* disabled={!url || loading}, disabled={!sampleJSON || loading}
TestButtonDisabled == form.url = "" \/ form.loading
SampleButtonDisabled == form.sampleJSON = "" \/ form.loading

\* the step completes the test request sent[id]
Completes(id) ==
    /\ sent[id].path \in TestPaths
    /\ sent[id].outcome = "pending"
    /\ sent'[id].outcome # "pending"

\* C24: while a Test Connection or Test Sample request is in flight,
\* loading is true and both submit buttons are disabled; the step that
\* completes it (ok:true, ok:false or transport failure) sets loading to
\* false and leaves exactly one of result and error non-null: result for
\* ok:true, error otherwise.
C24_LoadingUntilCompletion ==
    /\ [](TestInFlight => (form.loading /\ TestButtonDisabled /\ SampleButtonDisabled))
    /\ [][\A id \in 1 .. Len(sent) :
            Completes(id) =>
                /\ ~form'.loading
                /\ form'.result.isNull # form'.error.isNull
                /\ (sent'[id].outcome = "ok" <=> ~form'.result.isNull)
                /\ (~form'.result.isNull => form'.result.of = id)
                /\ (~form'.error.isNull => form'.error.of = id)]_vars

\* a Test Connection request has just been answered with ok:false
C24_Witness ==
    /\ Len(sent) = 1
    /\ sent[1].path = "/api/test"
    /\ sent[1].outcome = "notok"
    /\ ~form.loading
    /\ form.result.isNull
    /\ ~form.error.isNull
    /\ form.error.of = 1
----------------------------------------------------------------------------
\* Properties of concurrent saveApiTest calls

AllSaved == \A p \in DOMAIN savers : savers[p].pc = "done"

\* C25: when the saveApiTest calls have completed, whatever their
\* interleaving, the store holds exactly one ApiTest document for each URL
\* saved and its testCount is the number of completed calls for that URL.
C25_OneDocumentCountsAllCalls ==
    (savers # <<>> /\ AllSaved) =>
        \A u \in SaveUrls :
            completed[u] > 0 =>
                /\ CountFor(store.apiTests, u) = 1
                /\ FindOne(store.apiTests, u).testCount = completed[u]
----------------------------------------------------------------------------
\* Properties of fetchWithRetry for arbitrary maxRetries

Ended == pc \in {"done", "threw"}

\* C26: for every integer maxRetries, 0 and negative values included, a call
\* that has ended has made at least one request attempt and has resolved to
\* a result object (it has not thrown).
C26_AlwaysAttemptsAndResolves ==
    Ended => (requests >= 1 /\ Returned /\ result # NoResult)
----------------------------------------------------------------------------
\* Properties of the generated-datasource card of TestForm

\* C27: whenever generatedToolJet is non-null (the "generated successfully"
\* card is shown), result is non-null and generatedToolJet is the body of a
\* successful /api/generate response computed from that current result.
C27_GeneratedFromCurrentResult ==
    ~form.generatedToolJet.isNull =>
        /\ ~form.result.isNull
        /\ form.generatedToolJet.body = "wrapper"
        /\ sent[form.generatedToolJet.of].path = "/api/generate"
        /\ sent[form.generatedToolJet.of].schemaOf = form.result.of

\* C28: when every attempt and every backoff sleep completes, the call
\* eventually returns a result, for every maxRetries, and it has then made
\* at most maxRetries + 1 attempts and at most maxRetries sleeps.
C28_EventuallyReturns ==
    /\ <>Returned
    /\ [](Returned => (requests <= maxRetries + 1 /\ Len(sleeps) <= maxRetries))
----------------------------------------------------------------------------
\* Properties of the pagination component for offset-type pagination

ComponentFields ==
    {"present", "component", "type", "pageParam", "limitParam", "metaPaths"}

\* C29: for the offset-type pagination detectPagination produces, the
\* pagination component has type "offset", pageParam "page", limitParam
\* "limit" and the schema's metaPaths, and no offsetParam field: its fields
\* are those of the component of a page-type pagination.
C29_OffsetComponentHasNoOffsetParam ==
    ("generateImportWrapper" \in called /\ genIn.pagination.kind = "object") =>
        LET comp == wrapperOut.components.pagination
            pagination == genIn.pagination
        IN /\ DOMAIN comp = ComponentFields
           /\ ((pagination.type = "offset" /\ pagination.offsetParam = "offset"
                /\ pagination.limitParam = "limit" /\ pagination.hasMetaPaths) =>
                 /\ comp.type = "offset"
                 /\ comp.pageParam = "page"
                 /\ comp.limitParam = "limit"
                 /\ comp.metaPaths = pagination.metaPaths)

\* the offset-type pagination found in the container "meta"
C29_Witness ==
    /\ "generateImportWrapper" \in called
    /\ genIn.pagination = FromSchema(OffsetPagination("meta"))
    /\ wrapperOut.components.pagination.type = "offset"
    /\ wrapperOut.components.pagination.pageParam = "page"
    /\ wrapperOut.components.pagination.metaPaths.offset = "meta.offset"
----------------------------------------------------------------------------
\* Properties of the requests TestForm sends

\* C30: every request sent to /api/test carries a non-empty url, whatever
\* the user did before (typing or clearing the URL, Test Connection, Paste
\* Sample toggle, Test Sample, Retry).
C30_TestRequestsCarryUrl ==
    \A i \in 1 .. Len(sent) : sent[i].path = "/api/test" => sent[i].url # ""

====
